---- MODULE Spec2Model ----
(***************************************************************************)
(* Registry composition layer of pydantic-ai-skills: the registry contract *)
(* (search, get, install, update, get_skills), two kinds of concrete       *)
(* registries (the in-memory StubRegistry of the test-suite and the cache  *)
(* side of GitSkillsRegistry) and the views FilteredRegistry,              *)
(* PrefixedRegistry, RenamedRegistry and CombinedRegistry.                 *)
(*                                                                         *)
(* Strings are sequences of one-character strings, so that prefixing,      *)
(* startswith, slicing, lower() and the `in` substring test are computed.  *)
(* An operation returns [ok, val, w]: ok = TRUE and val the returned       *)
(* value, or ok = FALSE and val the raised exception; w is the world after *)
(* the call (registry caches, installed directories, log of the calls that *)
(* reached the concrete registries).                                       *)
(***************************************************************************)
EXTENDS Integers, Sequences, FiniteSets, TLC

VARIABLES
    kind,       \* kind[i]: "stub" (StubRegistry) or "git" (GitSkillsRegistry)
    skills,     \* skills[i]: StubRegistry.skills / GitSkillsRegistry._cached_skills
    installed,  \* the directories <<target_dir, skill_name>> that exist on disk
    calls,      \* calls made on the concrete registries by the last operation
                \* (for `git`: the clones, pulls and scans it ran)
    last,       \* the last operation called on a view: its arguments and outcome
    git,        \* a GitSkillsRegistry with its clone, its cache and the disk around it
    built,      \* the view the caller built and kept, if any: what filtered(),
                \* prefixed() or renamed() returned, with the records the
                \* registry held then
    tasks       \* the child searches asyncio.gather started for the
                \* CombinedRegistry.search in progress, in child order

vars == <<kind, skills, installed, calls, last, git, built, tasks>>

-----------------------------------------------------------------------------
(* Bounds *)

MaxSkills == 2      \* longest skill list of a concrete registry
MaxLimit == 2       \* largest `limit` passed to search
MaxChildren == 2    \* most children of a CombinedRegistry
MaxMap == 2         \* most entries of a name_map

-----------------------------------------------------------------------------
(* Strings *)

\* str.lower() on one character.
LowerChar(c) == CASE c = "A" -> "a" [] c = "P" -> "p" [] c = "X" -> "x" [] OTHER -> c

\* str.lower()
Lower(s) == [i \in 1..Len(s) |-> LowerChar(s[i])]

\* needle in hay
Contains(hay, needle) ==
    \E i \in 0..(Len(hay) - Len(needle)) : SubSeq(hay, i + 1, i + Len(needle)) = needle

\* name.startswith(prefix)
StartsWith(name, prefix) ==
    /\ Len(prefix) <= Len(name)
    /\ SubSeq(name, 1, Len(prefix)) = prefix

\* results[:limit] for limit >= 0
Take(seq, limit) == SubSeq(seq, 1, IF limit < Len(seq) THEN limit ELSE Len(seq))

-----------------------------------------------------------------------------
(* Values the registries hold *)

SkillNames == {<<"a">>, <<"x", "a">>}
Descriptions == {<<"p">>, <<"A">>}
Skills ==
    { [name |-> <<"a">>, description |-> <<"p">>],
      [name |-> <<"a">>, description |-> <<"A">>],
      [name |-> <<"x", "a">>, description |-> <<"p">>] }
TargetDirs == {"d"}
Kinds == {"stub", "git"}

RECURSIVE SeqsUpTo(_, _)
SeqsUpTo(S, n) ==
    IF n = 0 THEN {<<>>}
    ELSE LET shorter == SeqsUpTo(S, n - 1)
         IN  shorter \cup {Append(q, x) : q \in {t \in shorter : Len(t) = n - 1}, x \in S}

SkillLists == SeqsUpTo(Skills, MaxSkills)

\* What the outside world does to a GitSkillsRegistry during one call:
\*   "ok"         synchronisation and copying succeed, the tree is unchanged
\*   "unsafe"     a source file resolves outside the skill directory
\*   "sync_fail"  clone/pull fails
\*   "removed"    the pull succeeds and the skill asked for is gone upstream
\* A StubRegistry touches neither network nor source tree: its outcome is "ok".
EnvOutcomes == {"ok", "unsafe", "sync_fail", "removed"}
Envs == {e \in [DOMAIN skills -> EnvOutcomes] : \A i \in DOMAIN skills : kind[i] = "stub" => e[i] = "ok"}

-----------------------------------------------------------------------------
(* Outcomes *)

Ok(val, w) == [ok |-> TRUE, val |-> val, w |-> w]
Raise(err, w) == [ok |-> FALSE, val |-> err, w |-> w]

\* SkillNotFoundError; `where` says which registry raised it, `count` and
\* `prefix` are what the message names besides the skill name, `cause` is the
\* class of the exception it is chained from ("none": raised without `from`),
\* `message` is the part of the message that comes from a repository URL or
\* from git's output (empty where the message has no such part).
SkillNotFoundError(name, where, count, prefix) ==
    [type |-> "SkillNotFoundError", name |-> name, where |-> where,
     count |-> count, prefix |-> prefix, cause |-> "none", message |-> <<>>]

SkillRegistryError(where) ==
    [type |-> "SkillRegistryError", name |-> <<>>, where |-> where,
     count |-> 0, prefix |-> <<>>, cause |-> "none", message |-> <<>>]

\* The exception with `text` in its message.
Saying(err, text) == [err EXCEPT !.message = text]

\* raise err from exc, exc an exception of class `cause`
From(err, cause) == [err EXCEPT !.cause = cause]

\* An exception of another library that no handler catches.
Uncaught(type, where) == [SkillRegistryError(where) EXCEPT !.type = type]

IsNotFound(r) == ~r.ok /\ r.val.type = "SkillNotFoundError"

World(sk, inst, cl) == [skills |-> sk, installed |-> inst, calls |-> cl]

\* One call received by a concrete registry.
Call(op, reg, name, limit, ok, val) ==
    [op |-> op, reg |-> reg, name |-> name, limit |-> limit, ok |-> ok, val |-> val]

Logged(r, op, reg, name, limit) ==
    [r EXCEPT !.w.calls = Append(r.w.calls, Call(op, reg, name, limit, r.ok, r.val))]

-----------------------------------------------------------------------------
(* Concrete registries: StubRegistry and GitSkillsRegistry *)

\* q in s.name.lower() or q in (s.description or '').lower(), q = query.lower()
Matches(query, s) ==
    LET q == Lower(query)
    IN  Contains(Lower(s.name), q) \/ Contains(Lower(s.description), q)

\* The first skill of the list named `name`, as the `for ... if s.name == name`
\* loops of StubRegistry.get and GitSkillsRegistry.get/install find it.
HasName(list, name) == \E k \in 1..Len(list) : list[k].name = name
FirstNamed(list, name) ==
    list[CHOOSE k \in 1..Len(list) :
            /\ list[k].name = name
            /\ \A j \in 1..(k - 1) : list[j].name # name]

\* StubRegistry.search
StubSearch(w, i, query, limit) ==
    Ok(Take(SelectSeq(w.skills[i], LAMBDA s : Matches(query, s)), limit), w)

\* StubRegistry.get
StubGet(w, i, name) ==
    IF HasName(w.skills[i], name)
    THEN Ok(FirstNamed(w.skills[i], name), w)
    ELSE Raise(SkillNotFoundError(name, "stub", 0, <<>>), w)

\* StubRegistry.install: validates with get, then creates target_dir/name.
StubInstall(w, i, name, dir) ==
    LET found == StubGet(w, i, name)
    IN  IF ~found.ok THEN found
        ELSE Ok(<<dir, name>>, [w EXCEPT !.installed = @ \cup {<<dir, name>>}])

\* StubRegistry.update
StubUpdate(w, i, name, dir) == StubInstall(w, i, name, dir)

\* StubRegistry.get_skills
StubGetSkills(w, i) == Ok(w.skills[i], w)

\* GitSkillsRegistry._ensure_skills_loaded with auto_install = True: a non-empty
\* cache is kept; an empty one is synchronised (which can fail) and rescanned.
\* The tree of a registry whose cache is empty holds no skills.
GitEnsureSkillsLoaded(w, i, env) ==
    IF w.skills[i] # <<>> THEN Ok(TRUE, w)
    ELSE IF env[i] = "sync_fail" THEN Raise(SkillRegistryError("clone"), w)
    ELSE Ok(TRUE, w)

\* GitSkillsRegistry.get_skills
GitGetSkills(w, i, env) ==
    LET loaded == GitEnsureSkillsLoaded(w, i, env)
    IN  IF ~loaded.ok THEN loaded ELSE Ok(loaded.w.skills[i], loaded.w)

\* The loop of GitSkillsRegistry.search from skill k on: a match is appended
\* and only then is len(results) >= limit tested.
RECURSIVE GitSearchLoop(_, _, _, _, _)
GitSearchLoop(list, k, query, limit, results) ==
    IF k > Len(list) THEN results
    ELSE IF Matches(query, list[k])
         THEN LET more == Append(results, list[k])
              IN  IF Len(more) >= limit THEN more
                  ELSE GitSearchLoop(list, k + 1, query, limit, more)
         ELSE GitSearchLoop(list, k + 1, query, limit, results)

\* GitSkillsRegistry.search
GitSearch(w, i, query, limit, env) ==
    LET all == GitGetSkills(w, i, env)
    IN  IF ~all.ok THEN all
        ELSE Ok(GitSearchLoop(all.val, 1, query, limit, <<>>), all.w)

\* GitSkillsRegistry.get
GitGet(w, i, name, env) ==
    LET all == GitGetSkills(w, i, env)
    IN  IF ~all.ok THEN all
        ELSE IF HasName(all.val, name) THEN Ok(FirstNamed(all.val, name), all.w)
        ELSE Raise(SkillNotFoundError(name, "git", 0, <<>>), all.w)

\* GitSkillsRegistry.install: cache lookup, path-safety checks, then the
\* destination is replaced by a copy of the source directory.
GitInstall(w, i, name, dir, env) ==
    LET loaded == GitEnsureSkillsLoaded(w, i, env)
    IN  IF ~loaded.ok THEN loaded
        ELSE IF ~HasName(loaded.w.skills[i], name)
             THEN Raise(SkillNotFoundError(name, "git", 0, <<>>), loaded.w)
        ELSE IF env[i] = "unsafe"
             THEN Raise(SkillRegistryError("path traversal"), loaded.w)
        ELSE Ok(<<dir, name>>,
                [loaded.w EXCEPT !.installed = @ \cup {<<dir, name>>}])

\* GitSkillsRegistry.update: install when target_dir/name does not exist, else
\* synchronise, rebuild the cache from the tree and install.
GitUpdate(w, i, name, dir, env) ==
    IF <<dir, name>> \notin w.installed THEN GitInstall(w, i, name, dir, env)
    ELSE IF env[i] = "sync_fail" THEN Raise(SkillRegistryError("pull"), w)
    ELSE LET tree == IF env[i] = "removed"
                     THEN SelectSeq(w.skills[i], LAMBDA s : s.name # name)
                     ELSE w.skills[i]
             synced == [w EXCEPT !.skills[i] = tree]
         IN  GitInstall(synced, i, name, dir, env)

\* The five operations of concrete registry i, each logged as one call.
LeafSearch(w, i, query, limit, env) ==
    Logged(IF kind[i] = "stub" THEN StubSearch(w, i, query, limit)
           ELSE GitSearch(w, i, query, limit, env),
           "search", i, query, limit)

LeafGet(w, i, name, env) ==
    Logged(IF kind[i] = "stub" THEN StubGet(w, i, name) ELSE GitGet(w, i, name, env),
           "get", i, name, 0)

LeafInstall(w, i, name, dir, env) ==
    Logged(IF kind[i] = "stub" THEN StubInstall(w, i, name, dir)
           ELSE GitInstall(w, i, name, dir, env),
           "install", i, name, 0)

LeafUpdate(w, i, name, dir, env) ==
    Logged(IF kind[i] = "stub" THEN StubUpdate(w, i, name, dir)
           ELSE GitUpdate(w, i, name, dir, env),
           "update", i, name, 0)

LeafGetSkills(w, i, env) ==
    Logged(IF kind[i] = "stub" THEN StubGetSkills(w, i) ELSE GitGetSkills(w, i, env),
           "get_skills", i, <<>>, 0)

-----------------------------------------------------------------------------
(* Repository URLs and credentials.  A URL is the sequence of its parts:   *)
(* the scheme with "://", then the network location (user, ":", password,  *)
(* "@", host, ":", port), then the path "/r" and what follows it.  Other   *)
(* text is a sequence of parts too, so that a URL can occur inside it.     *)

\* An argument that was not given, a part that is not there.
None == <<>>

\* The first position of `part` in s, Len(s) + 1 when it does not occur.
Find(s, part) ==
    CHOOSE i \in 1..(Len(s) + 1) :
        /\ i = Len(s) + 1 \/ s[i] = part
        /\ \A j \in 1..(i - 1) : s[j] # part

\* The last position of `part` in s, 0 when it does not occur.
FindLast(s, part) ==
    CHOOSE i \in 0..Len(s) :
        /\ i = 0 \/ s[i] = part
        /\ \A j \in (i + 1)..Len(s) : s[j] # part

\* `part` occurs in the text s
Occurs(part, s) == \E i \in 1..Len(s) : s[i] = part

\* urlparse(repo_url): the user information ends at the last "@" of the
\* network location, the password starts after its first ":", the port
\* after the first ":" of what follows the "@".
UrlParse(url) ==
    LET Fields(userinfo, hostinfo) ==
            [scheme |-> url[1],
             username |-> SubSeq(userinfo, 1, Find(userinfo, ":") - 1),
             password |-> SubSeq(userinfo, Find(userinfo, ":") + 1, Len(userinfo)),
             hostname |-> SubSeq(hostinfo, 1, Find(hostinfo, ":") - 1),
             port |-> SubSeq(hostinfo, Find(hostinfo, ":") + 1, Len(hostinfo)),
             rest |-> SubSeq(url, Find(url, "/r"), Len(url))]
        Split(netloc, at) ==
            Fields(SubSeq(netloc, 1, at - 1), SubSeq(netloc, at + 1, Len(netloc)))
        Netloc(netloc) == Split(netloc, FindLast(netloc, "@"))
    IN  Netloc(SubSeq(url, 2, Find(url, "/r") - 1))

\* urlunparse(parsed._replace(netloc=netloc))
UrlUnparse(parsed, netloc) == <<parsed.scheme>> \o netloc \o parsed.rest

\* _inject_token_into_url
InjectTokenIntoUrl(repo_url, token) ==
    LET WithPort(parsed, netloc) ==
            UrlUnparse(parsed, IF parsed.port # None
                               THEN netloc \o <<":">> \o parsed.port ELSE netloc)
        WithToken(parsed) ==
            IF parsed.scheme \in {"http://", "https://"}
            THEN WithPort(parsed, <<"oauth2", ":">> \o token \o <<"@">> \o parsed.hostname)
            ELSE repo_url
    IN  WithToken(UrlParse(repo_url))

\* _sanitize_url
SanitizeUrl(repo_url) ==
    LET Redacted(parsed) ==
            IF parsed.password # None
            THEN UrlUnparse(parsed, IF parsed.port # None
                                    THEN parsed.hostname \o <<":">> \o parsed.port
                                    ELSE parsed.hostname)
            ELSE repo_url
    IN  Redacted(UrlParse(repo_url))

\* str.replace(old, new)
RECURSIVE StrReplace(_, _, _)
StrReplace(s, old, new) ==
    IF old = <<>> \/ Len(s) < Len(old) THEN s
    ELSE IF SubSeq(s, 1, Len(old)) = old
         THEN new \o StrReplace(SubSeq(s, Len(old) + 1, Len(s)), old, new)
    ELSE <<Head(s)>> \o StrReplace(Tail(s), old, new)

\* Mutant of SanitizeErrorMessage: the message is kept as git wrote it.
SanitizeErrorMessageNot(exc, clone_url, clean_url) == exc

\* _sanitize_error_message, exc the text of the exception
SanitizeErrorMessage(exc, clone_url, clean_url) == StrReplace(exc, clone_url, clean_url)

\* str.rstrip('/')
RECURSIVE RStripSlash(_)
RStripSlash(s) ==
    IF s # <<>> /\ s[Len(s)] = "/" THEN RStripSlash(SubSeq(s, 1, Len(s) - 1)) ELSE s

\* _build_source_url, with path = '' and no branch
BuildSourceUrl(repo_url, skill_name) ==
    LET stripped == RStripSlash(repo_url)
        clean_url == IF stripped # <<>> /\ stripped[Len(stripped)] = ".git"
                     THEN SubSeq(stripped, 1, Len(stripped) - 1) ELSE stripped
    IN  clean_url \o <<"/tree/", "main", "/">> \o skill_name

\* str(GitCommandError): what GitPython and git write about a failed command
\* run on clone_url: nothing about the URL, the URL as given (also followed
\* by "/"), or the URL with the password replaced by "*****".
GitSays(form, clone_url) ==
    CASE form = "plain" -> <<"fatal">>
      [] form = "url" -> <<"cmdline">> \o clone_url \o <<"fatal">> \o clone_url \o <<"/">>
      [] form = "masked" ->
            LET Masked(parsed) ==
                    IF parsed.password # None
                    THEN UrlUnparse(parsed, parsed.username \o <<":", "*****", "@">>
                                                \o parsed.hostname)
                    ELSE clone_url
            IN  <<"cmdline">> \o Masked(UrlParse(clone_url))

-----------------------------------------------------------------------------
(* GitSkillsRegistry in full: the clone in its target directory, the cache *)
(* as a list object, and the directories install writes.  The world g of   *)
(* the registry is a record:                                               *)
(*   constructed   __init__ has returned                                   *)
(*   auto_install  the constructor argument                                *)
(*   repo_url      self._repo_url                                          *)
(*   token         self._token: the argument, else GITHUB_TOKEN, else None *)
(*   clone_url     self._clone_url                                         *)
(*   clean_repo_url  self._clean_repo_url                                  *)
(*   repo          the target directory: "absent", "plain" (a directory    *)
(*                 with files that is not a repository) or "valid"         *)
(*   tree          the skill directories under the skills root, in the     *)
(*                 order discovery finds them                              *)
(*   heap          the list objects alive; cache and held index it         *)
(*   cache         self._cached_skills                                     *)
(*   held          the list the caller got from get_skills (0: none)       *)
(*   scanned       history: discover_skills has run for this registry      *)
(*   disk          what exists at each path outside the clone              *)
(*   log           the clones, pulls, removals of the target directory,    *)
(*                 scans and copies run during the call                    *)

\* What rglob('*') finds under a skill directory: the name and kind of each
\* entry and whether it resolves to a path inside the directory.
SkillFile == [name |-> "SKILL.md", kind |-> "file", inside |-> TRUE]
EscapingLink == [name |-> "escape.txt", kind |-> "symlink", inside |-> FALSE]
ResourceFile == [name |-> "resource.txt", kind |-> "file", inside |-> TRUE]

\* Skill directories.  The second one holds a symlink to a file outside it;
\* the last one declares a name with a traversal sequence.
TreeSkills ==
    { [dir |-> <<"a">>, name |-> <<"a">>, description |-> <<"p">>,
       entries |-> {SkillFile}, metadata |-> None],
      [dir |-> <<"a">>, name |-> <<"a">>, description |-> <<"p">>,
       entries |-> {SkillFile, EscapingLink}, metadata |-> None],
      [dir |-> <<"b">>, name |-> <<".", ".", "/", "e">>, description |-> <<"p">>,
       entries |-> {SkillFile}, metadata |-> None] }

\* A tree holds each directory once.
Trees ==
    {t \in SeqsUpTo(TreeSkills, MaxSkills) :
        \A j, k \in 1..Len(t) : j # k => t[j].dir # t[k].dir}

\* Two payloads of one skill, and the trees that hold one of them.
PayloadSkills ==
    { [dir |-> <<"a">>, name |-> <<"a">>, description |-> <<"p">>,
       entries |-> {SkillFile}, metadata |-> None],
      [dir |-> <<"a">>, name |-> <<"a">>, description |-> <<"A">>,
       entries |-> {SkillFile, ResourceFile}, metadata |-> None] }
PayloadTrees == {<<>>} \cup {<<t>> : t \in PayloadSkills}

\* What the outside world does during a call: `sync` says whether the git
\* commands fail (all of them: "fail"; those after the first: "fail_again"),
\* or the copy into the destination does ("copy_fail"), or nothing does;
\* `remote` is the tree the remote holds; `says` is the form of the text of
\* a failed git command.
GitEnvs == [sync : {"ok", "fail"}, remote : Trees, says : {"url"}]

\* path.split('/')
RECURSIVE SplitPath(_)
SplitPath(s) ==
    IF \A i \in 1..Len(s) : s[i] # "/" THEN <<s>>
    ELSE LET i == CHOOSE i \in 1..Len(s) : s[i] = "/" /\ \A j \in 1..(i - 1) : s[j] # "/"
         IN  <<SubSeq(s, 1, i - 1)>> \o SplitPath(SubSeq(s, i + 1, Len(s)))

\* Path.resolve() of the components `parts` below the resolved path `done`:
\* '' and '.' are dropped, '..' goes one directory up.
RECURSIVE ResolveParts(_, _)
ResolveParts(parts, done) ==
    IF parts = <<>> THEN done
    ELSE LET c == Head(parts)
         IN  ResolveParts(Tail(parts),
                 IF c = <<>> \/ c = <<".">> THEN done
                 ELSE IF c = <<".", ".">>
                      THEN (IF done = <<>> THEN done ELSE SubSeq(done, 1, Len(done) - 1))
                 ELSE Append(done, c))

\* Path(target_dir).expanduser().resolve(), the working directory being the root
ResolveDir(dir) == ResolveParts(SplitPath(dir), <<>>)

\* (dest_root / skill_name).resolve(): an absolute skill_name replaces dest_root
JoinResolved(root, name) ==
    IF name # <<>> /\ name[1] = "/"
    THEN ResolveParts(SplitPath(name), <<>>)
    ELSE ResolveParts(SplitPath(name), root)

\* path.is_relative_to(root)
IsRelativeTo(path, root) ==
    /\ Len(root) <= Len(path)
    /\ SubSeq(path, 1, Len(root)) = root

\* What a path of the disk holds: nothing, an empty directory, a directory
\* with a file no skill has, or the copy of a skill directory; `files` are
\* the names of the files below it.
Absent == [state |-> "absent", of |-> <<>>, files |-> {}]
Directory == [state |-> "dir", of |-> <<>>, files |-> {}]
Other == [state |-> "other", of |-> <<>>, files |-> {"extra.txt"}]
CopyOf(t) == [state |-> "copy", of |-> t.dir, files |-> {f.name : f \in t.entries}]

\* f'Failed to ... {self._clean_repo_url!r}: {sanitized}'
Failed(g, env) ==
    g.clean_repo_url
        \o SanitizeErrorMessage(GitSays(env.says, g.clone_url), g.clone_url, g.clean_repo_url)

\* The git command about to run fails: every command of the call does
\* ("fail"), or the first one works and a later one does not ("fail_again").
GitFails(g, env) ==
    \/ env.sync = "fail"
    \/ env.sync = "fail_again" /\ \E k \in 1..Len(g.log) : g.log[k] \in {"clone", "pull"}

\* GitSkillsRegistry._clone: git.Repo.clone_from into the target directory.
\* git refuses a directory that exists and is not empty, before it contacts
\* the remote; the GitCommandError is raised as SkillRegistryError.
Clone(g, env) ==
    LET ran == [g EXCEPT !.log = Append(@, "clone")]
    IN  IF g.repo = "plain" \/ GitFails(g, env)
        THEN Raise(From(Saying(SkillRegistryError(IF g.repo = "plain"
                                                  THEN "clone: destination not empty"
                                                  ELSE "clone"),
                               Failed(g, env)), "GitCommandError"), ran)
        ELSE Ok(TRUE, [ran EXCEPT !.repo = "valid", !.tree = env.remote])

\* GitSkillsRegistry._pull: git.Repo(target_dir) raises NoSuchPathError for
\* a missing directory and InvalidGitRepositoryError for one that is not a
\* repository; the latter is removed and cloned afresh.
Pull(g, env) ==
    LET ran == [g EXCEPT !.log = Append(@, "pull")]
    IN  IF g.repo = "absent"
        THEN Raise(Uncaught("NoSuchPathError", "pull"), g)
        ELSE IF g.repo = "plain"
        THEN Clone([g EXCEPT !.repo = "absent", !.tree = <<>>,
                             !.log = Append(@, "rmtree")], env)
        ELSE IF GitFails(g, env)
        THEN Raise(From(Saying(SkillRegistryError("pull"), Failed(g, env)),
                        "GitCommandError"), ran)
        ELSE Ok(TRUE, [ran EXCEPT !.tree = env.remote])

\* GitSkillsRegistry._is_cloned
IsCloned(g) == g.repo = "valid"

\* GitSkillsRegistry._ensure_cloned
EnsureCloned(g, env) == IF IsCloned(g) THEN Pull(g, env) ELSE Clone(g, env)

\* GitSkillsRegistry._load_skills: the skills discovered under the skills root,
\* each with the uri of its directory and the metadata of its SKILL.md.
LoadSkills(g) ==
    Ok(IF g.repo = "absent" THEN <<>>
       ELSE [k \in 1..Len(g.tree) |->
                [name |-> g.tree[k].name, description |-> g.tree[k].description,
                 uri |-> g.tree[k].dir, metadata |-> g.tree[k].metadata]],
       [g EXCEPT !.log = Append(@, "scan"), !.scanned = TRUE])

\* GitSkillsRegistry._get_commit_sha
GetCommitSha(g) == IF g.repo = "valid" THEN <<"sha">> ELSE None

\* GitSkillsRegistry._enrich_metadata: existing.update(extra), into a new Skill
EnrichMetadata(g, skill) ==
    LET Updated(existing, extra) ==
            [k \in DOMAIN existing \cup DOMAIN extra |->
                IF k \in DOMAIN extra THEN extra[k] ELSE existing[k]]
    IN  [skill EXCEPT !.metadata =
            Updated(skill.metadata,
                    [source_url |-> BuildSourceUrl(g.clean_repo_url, skill.name),
                     registry |-> <<"GitSkillsRegistry">>,
                     repo |-> g.clean_repo_url,
                     version |-> GetCommitSha(g)])]

\* [self._enrich_metadata(s) for s in self._load_skills()]
Discovered(g) ==
    LET scan == LoadSkills(g)
    IN  Ok([k \in 1..Len(scan.val) |-> EnrichMetadata(scan.w, scan.val[k])], scan.w)

\* GitSkillsRegistry.__repr__
Repr(g) == <<"GitSkillsRegistry(repo_url=">> \o g.clean_repo_url \o <<", path, target_dir)">>

\* The list object self._cached_skills refers to.
Cache(g) == g.heap[g.cache]

\* self._cached_skills = [...]: the cache is bound to a new list object.
SetCache(g, list) == [g EXCEPT !.heap = Append(@, list), !.cache = Len(g.heap) + 1]

\* Mutant of ListCopy: the list itself is handed out.
ListAlias(g, ref) == [ref |-> ref, w |-> g]

\* list(self._cached_skills): a new list object with the same elements.
ListCopy(g, ref) == [ref |-> Len(g.heap) + 1, w |-> [g EXCEPT !.heap = Append(@, g.heap[ref])]]

\* GitSkillsRegistry._refresh
Refresh(g, env) ==
    LET Cached(scan) == Ok(TRUE, SetCache(scan.w, scan.val))
        After(synced) == IF ~synced.ok THEN synced ELSE Cached(Discovered(synced.w))
    IN  After(EnsureCloned(g, env))

\* Mutant of EnsureSkillsLoaded: auto_install is not consulted.
EnsureSkillsLoadedAlways(g, env) ==
    IF Cache(g) # <<>> THEN Ok(TRUE, g) ELSE Refresh(g, env)

\* GitSkillsRegistry._ensure_skills_loaded
EnsureSkillsLoaded(g, env) ==
    LET Cached(scan) == Ok(TRUE, SetCache(scan.w, scan.val))
        After(synced) == IF ~synced.ok THEN synced ELSE Cached(Discovered(synced.w))
    IN  IF Cache(g) # <<>> THEN Ok(TRUE, g)
        ELSE After(IF g.auto_install THEN EnsureCloned(g, env) ELSE Ok(TRUE, g))

\* Mutant of GitSkillsRegistryInit: construction leaves synchronisation and
\* discovery to the first access.
GitSkillsRegistryInitLazy(g, repo_url, token, environ, auto_install, env) ==
    LET effective_token == IF token # None THEN token ELSE environ
    IN  Ok(TRUE, [SetCache([g EXCEPT !.repo_url = repo_url, !.scanned = FALSE,
                                     !.auto_install = auto_install,
                                     !.token = effective_token,
                                     !.clone_url = IF effective_token # None
                                                   THEN InjectTokenIntoUrl(repo_url, effective_token)
                                                   ELSE repo_url,
                                     !.clean_repo_url = SanitizeUrl(repo_url)], <<>>)
                     EXCEPT !.constructed = TRUE])

\* GitSkillsRegistry.__init__
GitSkillsRegistryInit(g, repo_url, token, environ, auto_install, env) ==
    LET effective_token == IF token # None THEN token ELSE environ
        made == SetCache([g EXCEPT !.repo_url = repo_url, !.scanned = FALSE,
                                   !.auto_install = auto_install,
                                   !.token = effective_token,
                                   !.clone_url = IF effective_token # None
                                                 THEN InjectTokenIntoUrl(repo_url, effective_token)
                                                 ELSE repo_url,
                                   !.clean_repo_url = SanitizeUrl(repo_url)], <<>>)
        Cached(scan) == Ok(TRUE, [SetCache(scan.w, scan.val) EXCEPT !.constructed = TRUE])
        After(synced) == IF ~synced.ok THEN synced ELSE Cached(Discovered(synced.w))
        Made(new) ==
            IF ~auto_install THEN Ok(TRUE, [new EXCEPT !.constructed = TRUE])
            ELSE After(EnsureCloned(new, env))
    IN  Made(made)

\* GitSkillsRegistry.get_skills: the value is the list object returned.
GitSkillsRegistryGetSkills(g, env) ==
    LET Handed(copy) == Ok(copy.ref, copy.w)
        With(loaded) ==
            IF ~loaded.ok THEN loaded ELSE Handed(ListCopy(loaded.w, loaded.w.cache))
    IN  With(EnsureSkillsLoaded(g, env))

\* GitSkillsRegistry.search
GitSkillsRegistrySearch(g, query, limit, env) ==
    LET Among(all) ==
            IF ~all.ok THEN all
            ELSE Ok(GitSearchLoop(all.w.heap[all.val], 1, query, limit, <<>>), all.w)
    IN  Among(GitSkillsRegistryGetSkills(g, env))

\* GitSkillsRegistry.get
GitSkillsRegistryGet(g, name, env) ==
    LET Among(all) ==
            IF ~all.ok THEN all
            ELSE IF HasName(all.w.heap[all.val], name)
                 THEN Ok(FirstNamed(all.w.heap[all.val], name), all.w)
            ELSE Raise(Saying(SkillNotFoundError(name, "git", 0, <<>>),
                              all.w.clean_repo_url), all.w)
    IN  Among(GitSkillsRegistryGetSkills(g, env))

\* The directory of the tree a cached uri points to.
HasDir(g, uri) == g.repo # "absent" /\ \E k \in 1..Len(g.tree) : g.tree[k].dir = uri
SourceDir(g, uri) == g.tree[CHOOSE k \in 1..Len(g.tree) : g.tree[k].dir = uri]

\* dest_root.mkdir(parents=True, exist_ok=True)
MakeDir(g, path) ==
    IF g.disk[path].state = "absent" THEN [g EXCEPT !.disk[path] = Directory] ELSE g

\* Mutant of DestinationEscapes: the destination is not checked.
DestinationUnchecked(dest, dest_root) == FALSE

\* not dest_skill_dir.resolve().is_relative_to(dest_root)
DestinationEscapes(dest, dest_root) == ~IsRelativeTo(dest, dest_root)

\* Mutant of SourceEscapes: the source files are not checked.
SourceUnchecked(g, uri) == FALSE

\* The loop over src_resolved.rglob('*'): some file or symlink resolves
\* outside the skill directory.
SourceEscapes(g, uri) ==
    /\ HasDir(g, uri)
    /\ \E f \in SourceDir(g, uri).entries :
          (f.kind = "symlink" \/ f.kind = "file") /\ ~f.inside

\* Mutant of CopyTree: the source is copied over what the destination holds.
CopyTreeMerging(g, t, dest, env) ==
    LET ran == [g EXCEPT !.log = Append(@, "copy")]
    IN  IF env.sync = "copy_fail"
        THEN Raise(Uncaught("OSError", "copy"), ran)
        ELSE Ok(dest, [ran EXCEPT !.disk[dest] =
                          [CopyOf(t) EXCEPT !.files = @ \cup g.disk[dest].files]])

\* if dest_skill_dir.exists(): shutil.rmtree(dest_skill_dir), then
\* shutil.copytree(src_resolved, dest_skill_dir).  No handler surrounds the
\* two calls: an OSError of the copy (permissions, a full disk) leaves the
\* destination removed and goes to the caller as it is.
CopyTree(g, t, dest, env) ==
    LET ran == [g EXCEPT !.log = Append(@, "copy")]
    IN  IF env.sync = "copy_fail"
        THEN Raise(Uncaught("OSError", "copy"), [ran EXCEPT !.disk[dest] = Absent])
        ELSE Ok(dest, [ran EXCEPT !.disk[dest] = CopyOf(t)])

\* Mutant of GitSkillsRegistryInstall: target_dir is created before the skill
\* is looked up in the cache.
GitSkillsRegistryInstallMkdirFirst(g, name, dir, env) ==
    LET Copied(made, uri, dest_root, dest) ==
            IF DestinationEscapes(dest, dest_root)
            THEN Raise(SkillRegistryError("destination escapes"), made)
            ELSE IF SourceEscapes(made, uri)
            THEN Raise(From(SkillRegistryError("source escapes"), "ValueError"), made)
            ELSE IF ~HasDir(made, uri)
            THEN Raise(Uncaught("FileNotFoundError", "copy"),
                       [made EXCEPT !.disk[dest] = Absent])
            ELSE CopyTree(made, SourceDir(made, uri), dest, env)
        Into(made, dest_root) ==
            IF ~HasName(Cache(made), name)
            THEN Raise(Saying(SkillNotFoundError(name, "git", 0, <<>>),
                              made.clean_repo_url), made)
            ELSE Copied(made, FirstNamed(Cache(made), name).uri,
                        dest_root, JoinResolved(dest_root, name))
        With(loaded) ==
            IF ~loaded.ok THEN loaded
            ELSE Into(MakeDir(loaded.w, ResolveDir(dir)), ResolveDir(dir))
    IN  With(EnsureSkillsLoaded(g, env))

\* GitSkillsRegistry.install
GitSkillsRegistryInstall(g, name, dir, env) ==
    LET Copied(made, uri, dest_root, dest) ==
            IF DestinationEscapes(dest, dest_root)
            THEN Raise(SkillRegistryError("destination escapes"), made)
            ELSE IF SourceEscapes(made, uri)
            THEN Raise(From(SkillRegistryError("source escapes"), "ValueError"), made)
            ELSE IF ~HasDir(made, uri)
            THEN Raise(Uncaught("FileNotFoundError", "copy"),
                       [made EXCEPT !.disk[dest] = Absent])
            ELSE CopyTree(made, SourceDir(made, uri), dest, env)
        Into(loaded, dest_root) ==
            Copied(MakeDir(loaded.w, dest_root), FirstNamed(Cache(loaded.w), name).uri,
                   dest_root, JoinResolved(dest_root, name))
        With(loaded) ==
            IF ~loaded.ok THEN loaded
            ELSE IF ~HasName(Cache(loaded.w), name)
                 THEN Raise(Saying(SkillNotFoundError(name, "git", 0, <<>>),
                                   loaded.w.clean_repo_url), loaded.w)
            ELSE Into(loaded, ResolveDir(dir))
    IN  With(EnsureSkillsLoaded(g, env))

\* (dest_root / skill_name).exists(): the path is walked through dest_root
\* unless skill_name is absolute.
PathExists(g, dest_root, name) ==
    /\ (name # <<>> /\ name[1] = "/") \/ g.disk[dest_root].state # "absent"
    /\ g.disk[JoinResolved(dest_root, name)].state # "absent"

\* Mutant of GitSkillsRegistryUpdate: the skill is reinstalled from the tree
\* as it is, and the tree is synchronised afterwards.
GitSkillsRegistryUpdateLate(g, name, dir, env) ==
    IF ~PathExists(g, ResolveDir(dir), name)
    THEN GitSkillsRegistryInstall(g, name, dir, env)
    ELSE LET Cached(done, scan) == Ok(done.val, SetCache(scan.w, scan.val))
             After(done, synced) ==
                 IF ~synced.ok THEN synced ELSE Cached(done, Discovered(synced.w))
             Then(done) == IF ~done.ok THEN done ELSE After(done, EnsureCloned(done.w, env))
         IN  Then(GitSkillsRegistryInstall(g, name, dir, env))

\* Mutant of GitSkillsRegistryUpdate: the cache is emptied before the tree
\* is synchronised.
GitSkillsRegistryUpdateClearing(g, name, dir, env) ==
    IF ~PathExists(g, ResolveDir(dir), name)
    THEN GitSkillsRegistryInstall(g, name, dir, env)
    ELSE LET Reinstalled(scan) ==
                 GitSkillsRegistryInstall(SetCache(scan.w, scan.val), name, dir, env)
             After(synced) ==
                 IF ~synced.ok THEN synced ELSE Reinstalled(Discovered(synced.w))
         IN  After(EnsureCloned(SetCache(g, <<>>), env))

\* Mutant of GitSkillsRegistryUpdate: the tree is synchronised and the cache
\* is left as it was.
GitSkillsRegistryUpdateStale(g, name, dir, env) ==
    IF ~PathExists(g, ResolveDir(dir), name)
    THEN GitSkillsRegistryInstall(g, name, dir, env)
    ELSE LET After(synced) ==
                 IF ~synced.ok THEN synced
                 ELSE GitSkillsRegistryInstall(synced.w, name, dir, env)
         IN  After(EnsureCloned(g, env))

\* GitSkillsRegistry.update
GitSkillsRegistryUpdate(g, name, dir, env) ==
    IF ~PathExists(g, ResolveDir(dir), name)
    THEN GitSkillsRegistryInstall(g, name, dir, env)
    ELSE LET Reinstalled(scan) ==
                 GitSkillsRegistryInstall(SetCache(scan.w, scan.val), name, dir, env)
             After(synced) ==
                 IF ~synced.ok THEN synced ELSE Reinstalled(Discovered(synced.w))
         IN  After(EnsureCloned(g, env))

-----------------------------------------------------------------------------
(* Views.  A registry object is a record:                                  *)
(*   [kind |-> "leaf", reg]                       a concrete registry      *)
(*   [kind |-> "wrapper", wrapped]                WrapperRegistry          *)
(*   [kind |-> "filtered", wrapped, predicate]    FilteredRegistry         *)
(*   [kind |-> "prefixed", wrapped, prefix]       PrefixedRegistry         *)
(*   [kind |-> "renamed", wrapped, name_map]      RenamedRegistry          *)
(*   [kind |-> "combined", registries]            CombinedRegistry         *)
(* A predicate is the set of skills it accepts; a name_map is the sequence *)
(* of its <<new name, original name>> items in insertion order.            *)

Leaf(i) == [kind |-> "leaf", reg |-> i]
Wrapper(v) == [kind |-> "wrapper", wrapped |-> v]

\* SkillRegistry.filtered
FilteredView(v, p) == [kind |-> "filtered", wrapped |-> v, predicate |-> p]

\* SkillRegistry.prefixed
PrefixedView(v, px) == [kind |-> "prefixed", wrapped |-> v, prefix |-> px]

\* SkillRegistry.renamed
RenamedView(v, m) == [kind |-> "renamed", wrapped |-> v, name_map |-> m]

CombinedView(children) == [kind |-> "combined", registries |-> children]

RECURSIVE Search(_, _, _, _, _)
RECURSIVE Get(_, _, _, _)
RECURSIVE Install(_, _, _, _, _)
RECURSIVE Update(_, _, _, _, _)
RECURSIVE GetSkills(_, _, _)

\* dataclasses.replace(skill, name=name)
ReplaceName(skill, name) == [skill EXCEPT !.name = name]

----
(* FilteredRegistry *)

\* self.predicate(skill)
Predicate(v, skill) == skill \in v.predicate

\* Mutant of FilteredSearch: the wrapped registry is asked for `limit` results.
FilteredSearchSameLimit(v, query, limit, w, env) ==
    LET results == Search(v.wrapped, query, limit, w, env)
    IN  IF ~results.ok THEN results
        ELSE Ok(Take(SelectSeq(results.val, LAMBDA s : Predicate(v, s)), limit), results.w)

\* FilteredRegistry.search
FilteredSearch(v, query, limit, w, env) ==
    LET results == Search(v.wrapped, query, limit * 5, w, env)
    IN  IF ~results.ok THEN results
        ELSE Ok(Take(SelectSeq(results.val, LAMBDA s : Predicate(v, s)), limit), results.w)

\* Mutant of FilteredGet: the predicate is not checked.
FilteredGetUnchecked(v, name, w, env) == Get(v.wrapped, name, w, env)

\* Mutant of FilteredGet: the predicate is asked about the name the caller gave,
\* not about the name of the record the wrapped layer returned.
FilteredGetByAskedName(v, name, w, env) ==
    LET skill == Get(v.wrapped, name, w, env)
    IN  IF ~skill.ok THEN skill
        ELSE IF ~Predicate(v, ReplaceName(skill.val, name))
             THEN Raise(SkillNotFoundError(name, "filtered", 0, <<>>), skill.w)
        ELSE skill

\* FilteredRegistry.get
FilteredGet(v, name, w, env) ==
    LET skill == Get(v.wrapped, name, w, env)
    IN  IF ~skill.ok THEN skill
        ELSE IF ~Predicate(v, skill.val)
             THEN Raise(SkillNotFoundError(name, "filtered", 0, <<>>), skill.w)
        ELSE skill

\* Mutant of FilteredInstall: delegates without validating through get.
FilteredInstallUnchecked(v, name, dir, w, env) == Install(v.wrapped, name, dir, w, env)

\* FilteredRegistry.install
FilteredInstall(v, name, dir, w, env) ==
    LET checked == FilteredGet(v, name, w, env)
    IN  IF ~checked.ok THEN checked
        ELSE Install(v.wrapped, name, dir, checked.w, env)

\* FilteredRegistry.update
FilteredUpdate(v, name, dir, w, env) ==
    LET checked == FilteredGet(v, name, w, env)
    IN  IF ~checked.ok THEN checked
        ELSE Update(v.wrapped, name, dir, checked.w, env)

\* FilteredRegistry.get_skills
FilteredGetSkills(v, w, env) ==
    LET all == GetSkills(v.wrapped, w, env)
    IN  IF ~all.ok THEN all
        ELSE Ok(SelectSeq(all.val, LAMBDA s : Predicate(v, s)), all.w)

----
(* PrefixedRegistry *)

\* PrefixedRegistry._add_prefix
AddPrefix(v, skill) == ReplaceName(skill, v.prefix \o skill.name)

\* PrefixedRegistry._strip_prefix
StripPrefix(v, name) ==
    IF StartsWith(name, v.prefix)
    THEN SubSeq(name, Len(v.prefix) + 1, Len(name))
    ELSE name

\* PrefixedRegistry.search
PrefixedSearch(v, query, limit, w, env) ==
    LET results == Search(v.wrapped, query, limit, w, env)
    IN  IF ~results.ok THEN results
        ELSE Ok([k \in 1..Len(results.val) |-> AddPrefix(v, results.val[k])], results.w)

\* Mutant of PrefixedGet: a name without the prefix is not rejected.
PrefixedGetLenient(v, name, w, env) ==
    LET skill == Get(v.wrapped, StripPrefix(v, name), w, env)
    IN  IF ~skill.ok THEN skill
        ELSE Ok(AddPrefix(v, skill.val), skill.w)

\* PrefixedRegistry.get
PrefixedGet(v, name, w, env) ==
    IF ~StartsWith(name, v.prefix)
    THEN Raise(SkillNotFoundError(name, "prefixed", 0, v.prefix), w)
    ELSE LET skill == Get(v.wrapped, StripPrefix(v, name), w, env)
         IN  IF ~skill.ok THEN skill
             ELSE Ok(AddPrefix(v, skill.val), skill.w)

\* PrefixedRegistry.install
PrefixedInstall(v, name, dir, w, env) ==
    Install(v.wrapped, StripPrefix(v, name), dir, w, env)

\* PrefixedRegistry.update
PrefixedUpdate(v, name, dir, w, env) ==
    Update(v.wrapped, StripPrefix(v, name), dir, w, env)

\* Mutant of PrefixedGetSkills: the prefix is written into the records of the
\* registry instead of into copies of them.
PrefixedGetSkillsInPlace(v, w, env) ==
    LET all == GetSkills(v.wrapped, w, env)
        Renamed(list) ==
            [k \in 1..Len(list) |->
                IF \E j \in 1..Len(all.val) : all.val[j] = list[k]
                THEN AddPrefix(v, list[k]) ELSE list[k]]
    IN  IF ~all.ok THEN all
        ELSE Ok([k \in 1..Len(all.val) |-> AddPrefix(v, all.val[k])],
                [all.w EXCEPT !.skills = [i \in DOMAIN @ |-> Renamed(@[i])]])

\* PrefixedRegistry.get_skills
PrefixedGetSkills(v, w, env) ==
    LET all == GetSkills(v.wrapped, w, env)
    IN  IF ~all.ok THEN all
        ELSE Ok([k \in 1..Len(all.val) |-> AddPrefix(v, all.val[k])], all.w)

----
(* RenamedRegistry *)

\* name in self.name_map
IsKey(m, name) == \E k \in 1..Len(m) : m[k][1] = name

\* name in self._reverse_map: some item has `name` as its original name
IsOriginal(m, name) == \E k \in 1..Len(m) : m[k][2] = name

\* RenamedRegistry._reverse_map[name]: {v: k for k, v in name_map.items()}
\* keeps, for each original name, the key of the last item that maps to it.
ReverseMap(m, name) ==
    m[CHOOSE k \in 1..Len(m) :
         /\ m[k][2] = name
         /\ \A j \in (k + 1)..Len(m) : m[j][2] # name][1]

\* Mutant of ToNewName: the map is read in the wrong direction (new -> original).
ToNewNameForward(v, skill) ==
    IF IsKey(v.name_map, skill.name)
    THEN ReplaceName(skill,
             v.name_map[CHOOSE k \in 1..Len(v.name_map) : v.name_map[k][1] = skill.name][2])
    ELSE skill

\* RenamedRegistry._to_new_name: `if new_name:` is false for None and for ''.
ToNewName(v, skill) ==
    IF IsOriginal(v.name_map, skill.name) /\ ReverseMap(v.name_map, skill.name) # <<>>
    THEN ReplaceName(skill, ReverseMap(v.name_map, skill.name))
    ELSE skill

\* Mutant of ToOriginalName: the argument is passed on unresolved.
ToOriginalNameUnresolved(v, name) == name

\* RenamedRegistry._to_original_name: self.name_map.get(name, name)
ToOriginalName(v, name) ==
    IF IsKey(v.name_map, name)
    THEN v.name_map[CHOOSE k \in 1..Len(v.name_map) : v.name_map[k][1] = name][2]
    ELSE name

\* RenamedRegistry.search
RenamedSearch(v, query, limit, w, env) ==
    LET results == Search(v.wrapped, query, limit, w, env)
    IN  IF ~results.ok THEN results
        ELSE Ok([k \in 1..Len(results.val) |-> ToNewName(v, results.val[k])], results.w)

\* Mutant of RenamedGet: an error of the wrapped registry is raised again under
\* the name the caller asked for.
RenamedGetRewording(v, name, w, env) ==
    LET skill == Get(v.wrapped, ToOriginalName(v, name), w, env)
    IN  IF ~skill.ok THEN Raise(SkillNotFoundError(name, "renamed", 0, <<>>), skill.w)
        ELSE Ok(ToNewName(v, skill.val), skill.w)

\* RenamedRegistry.get
RenamedGet(v, name, w, env) ==
    LET skill == Get(v.wrapped, ToOriginalName(v, name), w, env)
    IN  IF ~skill.ok THEN skill
        ELSE Ok(ToNewName(v, skill.val), skill.w)

\* RenamedRegistry.install
RenamedInstall(v, name, dir, w, env) ==
    Install(v.wrapped, ToOriginalName(v, name), dir, w, env)

\* RenamedRegistry.update
RenamedUpdate(v, name, dir, w, env) ==
    Update(v.wrapped, ToOriginalName(v, name), dir, w, env)

\* RenamedRegistry.get_skills
RenamedGetSkills(v, w, env) ==
    LET all == GetSkills(v.wrapped, w, env)
    IN  IF ~all.ok THEN all
        ELSE Ok([k \in 1..Len(all.val) |-> ToNewName(v, all.val[k])], all.w)

----
(* CombinedRegistry *)

\* skill.name in seen, seen being the names of `merged`
Seen(merged, name) == \E k \in 1..Len(merged) : merged[k].name = name

\* Mutant of CombinedGather: a child whose search raises is left out of the
\* merge instead of failing the call.
RECURSIVE CombinedGatherIsolated(_, _, _, _, _, _, _)
CombinedGatherIsolated(v, k, query, limit, w, env, got) ==
    IF k > Len(v.registries) THEN got
    ELSE LET r == Search(v.registries[k], query, limit, w, env)
         IN  CombinedGatherIsolated(v, k + 1, query, limit, r.w, env,
                 IF ~r.ok THEN [got EXCEPT !.w = r.w]
                 ELSE Ok(Append(got.val, r.val), r.w))

\* The awaited asyncio.gather of CombinedRegistry.search from child k on:
\* every child's search runs, in list order; `got` collects the result
\* lists; the first exception raised is what gather raises.
RECURSIVE CombinedGather(_, _, _, _, _, _, _)
CombinedGather(v, k, query, limit, w, env, got) ==
    IF k > Len(v.registries) THEN got
    ELSE LET r == Search(v.registries[k], query, limit, w, env)
         IN  CombinedGather(v, k + 1, query, limit, r.w, env,
                 IF ~got.ok THEN [got EXCEPT !.w = r.w]
                 ELSE IF ~r.ok THEN r
                 ELSE Ok(Append(got.val, r.val), r.w))

\* all_results as one list, in child order
RECURSIVE Flatten(_)
Flatten(lists) == IF lists = <<>> THEN <<>> ELSE Head(lists) \o Flatten(Tail(lists))

\* The merge loops of CombinedRegistry.search from skill k of the gathered
\* results on: an unseen name is appended, and after every skill looked at
\* len(merged) >= limit returns.
RECURSIVE CombinedMerge(_, _, _, _)
CombinedMerge(flat, k, limit, merged) ==
    IF k > Len(flat) THEN merged
    ELSE LET more == IF Seen(merged, flat[k].name) THEN merged
                     ELSE Append(merged, flat[k])
         IN  IF Len(more) >= limit THEN more
             ELSE CombinedMerge(flat, k + 1, limit, more)

\* CombinedRegistry.search
CombinedSearch(v, query, limit, w, env) ==
    LET all_results == CombinedGather(v, 1, query, limit, w, env, Ok(<<>>, w))
    IN  IF ~all_results.ok THEN all_results
        ELSE Ok(CombinedMerge(Flatten(all_results.val), 1, limit, <<>>), all_results.w)

\* Mutant of CombinedGetFrom: the children are tried from the last to the first.
RECURSIVE CombinedGetFromLast(_, _, _, _, _)
CombinedGetFromLast(v, k, name, w, env) ==
    IF k > Len(v.registries)
    THEN Raise(SkillNotFoundError(name, "combined", Len(v.registries), <<>>), w)
    ELSE LET r == Get(v.registries[Len(v.registries) + 1 - k], name, w, env)
         IN  IF IsNotFound(r) THEN CombinedGetFromLast(v, k + 1, name, r.w, env)
             ELSE r

\* Mutant of CombinedGetFrom: every exception of a child, not only
\* SkillNotFoundError, makes the loop go on to the next child.
RECURSIVE CombinedGetFromAnyError(_, _, _, _, _)
CombinedGetFromAnyError(v, k, name, w, env) ==
    IF k > Len(v.registries)
    THEN Raise(SkillNotFoundError(name, "combined", Len(v.registries), <<>>), w)
    ELSE LET r == Get(v.registries[k], name, w, env)
         IN  IF ~r.ok THEN CombinedGetFromAnyError(v, k + 1, name, r.w, env)
             ELSE r

\* The loop of CombinedRegistry.get from child k on.
RECURSIVE CombinedGetFrom(_, _, _, _, _)
CombinedGetFrom(v, k, name, w, env) ==
    IF k > Len(v.registries)
    THEN Raise(SkillNotFoundError(name, "combined", Len(v.registries), <<>>), w)
    ELSE LET r == Get(v.registries[k], name, w, env)
         IN  IF IsNotFound(r) THEN CombinedGetFrom(v, k + 1, name, r.w, env)
             ELSE r

\* CombinedRegistry.get
CombinedGet(v, name, w, env) == CombinedGetFrom(v, 1, name, w, env)

\* Mutant of CombinedInstallFrom: install is tried without the get before it.
RECURSIVE CombinedInstallBlind(_, _, _, _, _, _)
CombinedInstallBlind(v, k, name, dir, w, env) ==
    IF k > Len(v.registries)
    THEN Raise(SkillNotFoundError(name, "combined install", 0, <<>>), w)
    ELSE LET r == Install(v.registries[k], name, dir, w, env)
         IN  IF IsNotFound(r) THEN CombinedInstallBlind(v, k + 1, name, dir, r.w, env)
             ELSE r

\* The loop of CombinedRegistry.install from child k on.
RECURSIVE CombinedInstallFrom(_, _, _, _, _, _)
CombinedInstallFrom(v, k, name, dir, w, env) ==
    IF k > Len(v.registries)
    THEN Raise(SkillNotFoundError(name, "combined install", 0, <<>>), w)
    ELSE LET found == Get(v.registries[k], name, w, env)
             r == IF found.ok THEN Install(v.registries[k], name, dir, found.w, env)
                  ELSE found
         IN  IF IsNotFound(r) THEN CombinedInstallFrom(v, k + 1, name, dir, r.w, env)
             ELSE r

\* CombinedRegistry.install
CombinedInstall(v, name, dir, w, env) == CombinedInstallFrom(v, 1, name, dir, w, env)

\* The loop of CombinedRegistry.update from child k on.
RECURSIVE CombinedUpdateFrom(_, _, _, _, _, _)
CombinedUpdateFrom(v, k, name, dir, w, env) ==
    IF k > Len(v.registries)
    THEN Raise(SkillNotFoundError(name, "combined update", 0, <<>>), w)
    ELSE LET found == Get(v.registries[k], name, w, env)
             r == IF found.ok THEN Update(v.registries[k], name, dir, found.w, env)
                  ELSE found
         IN  IF IsNotFound(r) THEN CombinedUpdateFrom(v, k + 1, name, dir, r.w, env)
             ELSE r

\* CombinedRegistry.update
CombinedUpdate(v, name, dir, w, env) == CombinedUpdateFrom(v, 1, name, dir, w, env)

\* Mutant of CombinedAddUnseen: every skill is appended, seen or not.
CombinedAddAll(list, k, merged) == merged \o list

\* The inner loop of CombinedRegistry.get_skills over one child's snapshot,
\* from skill k on: an unseen name is appended.
RECURSIVE CombinedAddUnseen(_, _, _)
CombinedAddUnseen(list, k, merged) ==
    IF k > Len(list) THEN merged
    ELSE CombinedAddUnseen(list, k + 1,
             IF Seen(merged, list[k].name) THEN merged ELSE Append(merged, list[k]))

\* The outer loop of CombinedRegistry.get_skills from child k on.
RECURSIVE CombinedGetSkillsFrom(_, _, _, _, _)
CombinedGetSkillsFrom(v, k, w, env, merged) ==
    IF k > Len(v.registries) THEN Ok(merged, w)
    ELSE LET r == GetSkills(v.registries[k], w, env)
         IN  IF ~r.ok THEN r
             ELSE CombinedGetSkillsFrom(v, k + 1, r.w, env,
                                        CombinedAddUnseen(r.val, 1, merged))

\* CombinedRegistry.get_skills
CombinedGetSkills(v, w, env) == CombinedGetSkillsFrom(v, 1, w, env, <<>>)

----
(* Dispatch on the class of the registry object *)

Search(v, query, limit, w, env) ==
    CASE v.kind = "leaf" -> LeafSearch(w, v.reg, query, limit, env)
      [] v.kind = "wrapper" -> Search(v.wrapped, query, limit, w, env)
      [] v.kind = "filtered" -> FilteredSearch(v, query, limit, w, env)
      [] v.kind = "prefixed" -> PrefixedSearch(v, query, limit, w, env)
      [] v.kind = "renamed" -> RenamedSearch(v, query, limit, w, env)
      [] v.kind = "combined" -> CombinedSearch(v, query, limit, w, env)

Get(v, name, w, env) ==
    CASE v.kind = "leaf" -> LeafGet(w, v.reg, name, env)
      [] v.kind = "wrapper" -> Get(v.wrapped, name, w, env)
      [] v.kind = "filtered" -> FilteredGet(v, name, w, env)
      [] v.kind = "prefixed" -> PrefixedGet(v, name, w, env)
      [] v.kind = "renamed" -> RenamedGet(v, name, w, env)
      [] v.kind = "combined" -> CombinedGet(v, name, w, env)

Install(v, name, dir, w, env) ==
    CASE v.kind = "leaf" -> LeafInstall(w, v.reg, name, dir, env)
      [] v.kind = "wrapper" -> Install(v.wrapped, name, dir, w, env)
      [] v.kind = "filtered" -> FilteredInstall(v, name, dir, w, env)
      [] v.kind = "prefixed" -> PrefixedInstall(v, name, dir, w, env)
      [] v.kind = "renamed" -> RenamedInstall(v, name, dir, w, env)
      [] v.kind = "combined" -> CombinedInstall(v, name, dir, w, env)

Update(v, name, dir, w, env) ==
    CASE v.kind = "leaf" -> LeafUpdate(w, v.reg, name, dir, env)
      [] v.kind = "wrapper" -> Update(v.wrapped, name, dir, w, env)
      [] v.kind = "filtered" -> FilteredUpdate(v, name, dir, w, env)
      [] v.kind = "prefixed" -> PrefixedUpdate(v, name, dir, w, env)
      [] v.kind = "renamed" -> RenamedUpdate(v, name, dir, w, env)
      [] v.kind = "combined" -> CombinedUpdate(v, name, dir, w, env)

GetSkills(v, w, env) ==
    CASE v.kind = "leaf" -> LeafGetSkills(w, v.reg, env)
      [] v.kind = "wrapper" -> GetSkills(v.wrapped, w, env)
      [] v.kind = "filtered" -> FilteredGetSkills(v, w, env)
      [] v.kind = "prefixed" -> PrefixedGetSkills(v, w, env)
      [] v.kind = "renamed" -> RenamedGetSkills(v, w, env)
      [] v.kind = "combined" -> CombinedGetSkills(v, w, env)

-----------------------------------------------------------------------------
(* Inputs of the calls *)

Predicates == SUBSET Skills
Prefixes == {<<>>, <<"x">>}
GetNames == SkillNames \cup {<<"x">>}
PrefixedNames == GetNames \cup {<<"x", "x", "a">>}
Queries == {<<>>, <<"x">>, <<"P">>}
Limits == 0..MaxLimit
RenameKeys == {<<>>, <<"a">>, <<"x">>}

\* dict literals {new: original} of at most MaxMap items: keys are distinct.
NameMaps ==
    {m \in SeqsUpTo(RenameKeys \X SkillNames, MaxMap) :
        \A j, k \in 1..Len(m) : j # k => m[j][1] # m[k][1]}

Leaves == {Leaf(i) : i \in DOMAIN skills}
ChildLists == SeqsUpTo(Leaves, MaxChildren)

-----------------------------------------------------------------------------
(* State machine: a sequential caller.  Each Call action is one call on a  *)
(* freshly built view, run to completion; Return is the caller taking the  *)
(* outcome, after which it may call again.                                 *)

NoCall == [op |-> "none", view |-> Leaf(1), name |-> <<>>, query |-> <<>>,
           limit |-> 0, dir |-> "", ok |-> TRUE, val |-> <<>>, pre |-> <<>>]

\* The composition layer is exercised on the concrete registries `skills`; the
\* detailed GitSkillsRegistry of `git` takes no part in it.
NoRegistry == [constructed |-> FALSE]

\* Registries as constructed: one registry of either kind.
InitOne ==
    /\ kind \in [{1} -> Kinds]
    /\ skills \in [{1} -> SkillLists]
    /\ installed = {}
    /\ calls = <<>>
    /\ last = NoCall
    /\ built = <<>>
    /\ tasks = <<>>
    /\ git = NoRegistry

\* Registries as constructed: a GitSkillsRegistry and a StubRegistry.
InitTwo ==
    /\ kind = <<"git", "stub">>
    /\ skills \in [{1, 2} -> SkillLists]
    /\ installed = {}
    /\ calls = <<>>
    /\ last = NoCall
    /\ built = <<>>
    /\ tasks = <<>>
    /\ git = NoRegistry

\* The world a call starts in: the log is per call.
Now == World(skills, installed, <<>>)

\* The caller is between two calls.
Idle == last.op = "none"

\* The state after a call that ended with outcome r.
Done(r, op, v, name, query, limit, dir) ==
    /\ skills' = r.w.skills
    /\ installed' = r.w.installed
    /\ calls' = r.w.calls
    /\ last' = [op |-> op, view |-> v, name |-> name, query |-> query,
                limit |-> limit, dir |-> dir, ok |-> r.ok, val |-> r.val,
                pre |-> skills]
    /\ UNCHANGED <<kind, git, built, tasks>>

CallSearch(v, query, limit, env) ==
    Done(Search(v, query, limit, Now, env), "search", v, <<>>, query, limit, "")
CallGet(v, name, env) ==
    Done(Get(v, name, Now, env), "get", v, name, <<>>, 0, "")
CallInstall(v, name, dir, env) ==
    Done(Install(v, name, dir, Now, env), "install", v, name, <<>>, 0, dir)
CallUpdate(v, name, dir, env) ==
    Done(Update(v, name, dir, Now, env), "update", v, name, <<>>, 0, dir)
CallGetSkills(v, env) ==
    Done(GetSkills(v, Now, env), "get_skills", v, <<>>, <<>>, 0, "")

\* The caller has the outcome of the call in hand.
Return ==
    /\ last.op # "none"
    /\ last' = NoCall
    /\ calls' = <<>>
    /\ UNCHANGED <<kind, skills, installed, git, built, tasks>>

FilteredViews == {FilteredView(r, p) : r \in Leaves, p \in Predicates}
PrefixedViews == {PrefixedView(r, px) : r \in Leaves, px \in Prefixes}
RenamedViews == {RenamedView(r, m) : r \in Leaves, m \in NameMaps}
CombinedViews == {CombinedView(c) : c \in ChildLists}

FilteredSearchCall ==
    /\ Idle
    /\ \E v \in FilteredViews, q \in Queries, l \in Limits, env \in Envs : CallSearch(v, q, l, env)
FilteredGetCall ==
    /\ Idle
    /\ \E v \in FilteredViews, n \in GetNames, env \in Envs : CallGet(v, n, env)
FilteredInstallCall ==
    /\ Idle
    /\ \E v \in FilteredViews, n \in GetNames, d \in TargetDirs, env \in Envs :
          CallInstall(v, n, d, env)
FilteredUpdateCall ==
    /\ Idle
    /\ \E v \in FilteredViews, n \in GetNames, d \in TargetDirs, env \in Envs :
          CallUpdate(v, n, d, env)
FilteredGetSkillsCall ==
    /\ Idle
    /\ \E v \in FilteredViews, env \in Envs : CallGetSkills(v, env)

NextFiltered ==
    \/ FilteredSearchCall
    \/ FilteredGetCall
    \/ FilteredInstallCall
    \/ FilteredUpdateCall
    \/ FilteredGetSkillsCall
    \/ Return

SpecFiltered == InitOne /\ [][NextFiltered]_vars

\* Skill lists longer than the 5 results FilteredRegistry.search asks for with
\* limit = 1: five times one skill, then another.
LongLists == {[k \in 1..6 |-> IF k <= 5 THEN s ELSE t] : s, t \in Skills}

\* Registries as constructed: one registry of either kind, its list short or
\* long.
InitLong ==
    /\ kind \in [{1} -> Kinds]
    /\ skills \in [{1} -> SkillLists \cup LongLists]
    /\ installed = {}
    /\ calls = <<>>
    /\ last = NoCall
    /\ built = <<>>
    /\ tasks = <<>>
    /\ git = NoRegistry

SpecFilteredLong == InitLong /\ [][NextFiltered]_vars

PrefixedSearchCall ==
    /\ Idle
    /\ \E v \in PrefixedViews, q \in Queries, l \in Limits, env \in Envs : CallSearch(v, q, l, env)
PrefixedGetCall ==
    /\ Idle
    /\ \E v \in PrefixedViews, n \in PrefixedNames, env \in Envs : CallGet(v, n, env)
PrefixedInstallCall ==
    /\ Idle
    /\ \E v \in PrefixedViews, n \in PrefixedNames, d \in TargetDirs, env \in Envs :
          CallInstall(v, n, d, env)
PrefixedUpdateCall ==
    /\ Idle
    /\ \E v \in PrefixedViews, n \in PrefixedNames, d \in TargetDirs, env \in Envs :
          CallUpdate(v, n, d, env)
PrefixedGetSkillsCall ==
    /\ Idle
    /\ \E v \in PrefixedViews, env \in Envs : CallGetSkills(v, env)

NextPrefixed ==
    \/ PrefixedSearchCall
    \/ PrefixedGetCall
    \/ PrefixedInstallCall
    \/ PrefixedUpdateCall
    \/ PrefixedGetSkillsCall
    \/ Return

SpecPrefixed == InitOne /\ [][NextPrefixed]_vars

RenamedSearchCall ==
    /\ Idle
    /\ \E v \in RenamedViews, q \in Queries, l \in Limits, env \in Envs : CallSearch(v, q, l, env)
RenamedGetCall ==
    /\ Idle
    /\ \E v \in RenamedViews, n \in GetNames, env \in Envs : CallGet(v, n, env)
RenamedInstallCall ==
    /\ Idle
    /\ \E v \in RenamedViews, n \in GetNames, d \in TargetDirs, env \in Envs :
          CallInstall(v, n, d, env)
RenamedUpdateCall ==
    /\ Idle
    /\ \E v \in RenamedViews, n \in GetNames, d \in TargetDirs, env \in Envs :
          CallUpdate(v, n, d, env)
RenamedGetSkillsCall ==
    /\ Idle
    /\ \E v \in RenamedViews, env \in Envs : CallGetSkills(v, env)

NextRenamed ==
    \/ RenamedSearchCall
    \/ RenamedGetCall
    \/ RenamedInstallCall
    \/ RenamedUpdateCall
    \/ RenamedGetSkillsCall
    \/ Return

SpecRenamed == InitOne /\ [][NextRenamed]_vars

CombinedSearchCall ==
    /\ Idle
    /\ \E v \in CombinedViews, q \in Queries, l \in Limits, env \in Envs : CallSearch(v, q, l, env)
CombinedGetCall ==
    /\ Idle
    /\ \E v \in CombinedViews, n \in GetNames, env \in Envs : CallGet(v, n, env)
CombinedInstallCall ==
    /\ Idle
    /\ \E v \in CombinedViews, n \in GetNames, d \in TargetDirs, env \in Envs :
          CallInstall(v, n, d, env)
CombinedUpdateCall ==
    /\ Idle
    /\ \E v \in CombinedViews, n \in GetNames, d \in TargetDirs, env \in Envs :
          CallUpdate(v, n, d, env)
CombinedGetSkillsCall ==
    /\ Idle
    /\ \E v \in CombinedViews, env \in Envs : CallGetSkills(v, env)

\* The read operations of a CombinedRegistry.
NextCombined ==
    \/ CombinedSearchCall
    \/ CombinedGetCall
    \/ CombinedGetSkillsCall
    \/ Return

SpecCombined == InitTwo /\ [][NextCombined]_vars

\* The mutating operations of a CombinedRegistry.
NextCombinedInstall ==
    \/ CombinedInstallCall
    \/ CombinedUpdateCall
    \/ Return

SpecCombinedInstall == InitTwo /\ [][NextCombinedInstall]_vars

\* get, install and update of a CombinedRegistry: the operations that try
\* the children in order.
NextCombinedInOrder ==
    \/ CombinedGetCall
    \/ CombinedInstallCall
    \/ CombinedUpdateCall
    \/ Return

SpecCombinedInOrder == InitTwo /\ [][NextCombinedInOrder]_vars

----
(* CombinedRegistry.search as the event loop runs it.  asyncio.gather makes *)
(* one task per child search; the tasks finish in any order; the awaiting   *)
(* search resumes once gather's future is done and then merges.             *)

\* Skill lists without a repeated name.
GatherLists ==
    {l \in SkillLists : \A j, k \in 1..Len(l) : l[j].name = l[k].name => j = k}

\* Registries as constructed: a GitSkillsRegistry and a StubRegistry.
InitGather ==
    /\ kind = <<"git", "stub">>
    /\ skills \in [{1, 2} -> GatherLists]
    /\ installed = {}
    /\ calls = <<>>
    /\ last = NoCall
    /\ built = <<>>
    /\ tasks = <<>>
    /\ git = NoRegistry

\* Mutant of GatherDone: gather's future is done with the first task that
\* finishes.
GatherAnyDone(ts) == \E k \in 1..Len(ts) : ts[k].done

\* gather's future gets its result, the list of the children's results in
\* argument order, when the last of its tasks has finished.
GatherDone(ts) == \A k \in 1..Len(ts) : ts[k].done

\* search called: asyncio.gather(*(reg.search(query, limit) for reg in
\* self.registries)) wraps every child's search in a task, and the search
\* awaits the gathering future.
CombinedSearchStart ==
    /\ Idle
    /\ \E v \in CombinedViews, q \in Queries, l \in Limits, env \in Envs :
          /\ tasks' = [k \in 1..Len(v.registries) |->
                          [reg |-> v.registries[k], query |-> q, limit |-> l,
                           env |-> env, done |-> FALSE, ok |-> TRUE, val |-> <<>>]]
          /\ last' = [op |-> "gather", view |-> v, name |-> <<>>, query |-> q,
                      limit |-> l, dir |-> "", ok |-> TRUE, val |-> <<>>,
                      pre |-> skills]
    /\ calls' = <<>>
    /\ UNCHANGED <<kind, skills, installed, git, built>>

\* The event loop runs one of the unfinished child searches to its end.  The
\* first one to raise sets the exception of gather's future; the tasks that
\* are left are not cancelled.
ChildSearchDone ==
    /\ \E k \in 1..Len(tasks) :
          /\ ~tasks[k].done
          /\ LET Finish(r) ==
                     /\ skills' = r.w.skills
                     /\ installed' = r.w.installed
                     /\ calls' = r.w.calls
                     /\ tasks' = [tasks EXCEPT ![k].done = TRUE, ![k].ok = r.ok,
                                               ![k].val = r.val]
                     /\ last' = IF last.op = "gather" /\ last.ok /\ ~r.ok
                                THEN [last EXCEPT !.ok = FALSE, !.val = r.val]
                                ELSE last
             IN  Finish(Search(tasks[k].reg, tasks[k].query, tasks[k].limit,
                               World(skills, installed, calls), tasks[k].env))
    /\ UNCHANGED <<kind, git, built>>

\* The search resumes from `await asyncio.gather(...)`: with the exception
\* of gather's future, or with all_results, which the loops merge.
CombinedSearchResume ==
    /\ last.op = "gather"
    /\ ~last.ok \/ GatherDone(tasks)
    /\ last' = [last EXCEPT
                   !.op = "search",
                   !.val = IF ~last.ok THEN last.val
                           ELSE CombinedMerge(Flatten([k \in 1..Len(tasks) |-> tasks[k].val]),
                                              1, last.limit, <<>>)]
    /\ UNCHANGED <<kind, skills, installed, calls, git, built, tasks>>

\* The caller has the outcome of the search in hand; its event loop ends and
\* takes the tasks a failed gather left behind with it.
CombinedSearchReturn ==
    /\ last.op = "search"
    /\ last' = NoCall
    /\ calls' = <<>>
    /\ tasks' = <<>>
    /\ UNCHANGED <<kind, skills, installed, git, built>>

NextGather ==
    \/ CombinedSearchStart
    \/ ChildSearchDone
    \/ CombinedSearchResume
    \/ CombinedSearchReturn

SpecGather == InitGather /\ [][NextGather]_vars

----
(* Chains of views *)

\* Arguments of the views of a chain.
ChainPredicates == {Skills, {s \in Skills : s.description = <<"p">>}}
ChainMaps == {m \in NameMaps : Len(m) <= 1}

\* The views that can be built directly on registry v.
ViewsOn(v) ==
    {FilteredView(v, p) : p \in ChainPredicates}
        \cup {PrefixedView(v, px) : px \in Prefixes}
        \cup {RenamedView(v, m) : m \in ChainMaps}
        \cup {CombinedView(<<v>>)}

\* A concrete registry, a view on it, or a view on a view on it.
ChainViews ==
    LET one == UNION {ViewsOn(r) : r \in Leaves}
    IN  Leaves \cup one \cup UNION {ViewsOn(v) : v \in one}

\* What the outside world does during a read: synchronisation works or fails.
ReadEnvs == {e \in Envs : \A i \in DOMAIN skills : e[i] \in {"ok", "sync_fail"}}

ChainSearchCall ==
    /\ Idle
    /\ \E v \in ChainViews, q \in Queries, l \in Limits, env \in ReadEnvs : CallSearch(v, q, l, env)
ChainGetCall ==
    /\ Idle
    /\ \E v \in ChainViews, n \in PrefixedNames, env \in ReadEnvs : CallGet(v, n, env)

NextChain ==
    \/ ChainSearchCall
    \/ ChainGetCall
    \/ Return

SpecChain == InitOne /\ [][NextChain]_vars

----
(* Views kept by the caller: a view is built on the registry, kept, and    *)
(* called while the registry is installed from and updated.                *)

\* Records a predicate can be asked about: the registry's records under any
\* of the names the views emit.
EmittedSkills == [name : SeqsUpTo({"a", "x"}, 4), description : Descriptions]

\* lambda s: s.description == 'p' and lambda s: s.name == 'xa'
ViewPredicates ==
    { {s \in EmittedSkills : s.description = <<"p">>},
      {s \in EmittedSkills : s.name = <<"x", "a">>} }

\* {'x': 'a'} and {'x': 'xa'}
ViewMaps == { << <<<<"x">>, <<"a">>>> >>, << <<<<"x">>, <<"x", "a">>>> >> }

ViewPrefix == <<"x">>
ViewNames == {<<"a">>, <<"x">>, <<"x", "a">>, <<"x", "x", "a">>}

\* The views that can be built directly on registry or view v.
ViewsOver(v) ==
    {Wrapper(v)}
        \cup {FilteredView(v, p) : p \in ViewPredicates}
        \cup {PrefixedView(v, ViewPrefix)}
        \cup {RenamedView(v, m) : m \in ViewMaps}

\* One view, a view of a view, and registry.filtered(p).prefixed(px).renamed(m).
KeptViews ==
    LET one == ViewsOver(Leaf(1))
    IN  one \cup UNION {ViewsOver(v) : v \in one}
            \cup {RenamedView(PrefixedView(FilteredView(Leaf(1), p), ViewPrefix), m) :
                     p \in ViewPredicates, m \in ViewMaps}

\* The view v with registry i at the bottom of the chain.
RECURSIVE OnRegistry(_, _)
OnRegistry(v, i) ==
    IF v.kind = "leaf" THEN Leaf(i)
    ELSE [v EXCEPT !.wrapped = OnRegistry(v.wrapped, i)]

\* Mutant of ViewsBuild: the view is built on a copy of the registry.
ViewsBuildCopying ==
    /\ Idle
    /\ Len(skills) < 2
    /\ \E v \in KeptViews :
          built' = <<[view |-> OnRegistry(v, Len(skills) + 1), at_build |-> skills[1]]>>
    /\ skills' = Append(skills, skills[1])
    /\ kind' = Append(kind, kind[1])
    /\ UNCHANGED <<installed, calls, last, git, tasks>>

\* SkillRegistry.filtered / prefixed / renamed and WrapperRegistry(registry):
\* the new object refers to the registry it was built on; the caller keeps it.
ViewsBuild ==
    /\ Idle
    /\ \E v \in KeptViews : built' = <<[view |-> v, at_build |-> skills[1]]>>
    /\ UNCHANGED <<kind, skills, installed, calls, last, git, tasks>>

HasKept == built # <<>>
Kept == built[1].view

ViewSearchCall ==
    /\ Idle /\ HasKept
    /\ \E q \in Queries, l \in Limits, env \in ReadEnvs : CallSearch(Kept, q, l, env)
ViewGetCall ==
    /\ Idle /\ HasKept
    /\ \E n \in ViewNames, env \in ReadEnvs : CallGet(Kept, n, env)
ViewGetSkillsCall ==
    /\ Idle /\ HasKept
    /\ \E env \in ReadEnvs : CallGetSkills(Kept, env)
ViewInstallCall ==
    /\ Idle /\ HasKept
    /\ \E n \in ViewNames, d \in TargetDirs, env \in Envs : CallInstall(Kept, n, d, env)
ViewUpdateCall ==
    /\ Idle /\ HasKept
    /\ \E n \in ViewNames, d \in TargetDirs, env \in Envs : CallUpdate(Kept, n, d, env)

\* update called on the registry itself, not through a view
RegistryUpdateCall ==
    /\ Idle
    /\ \E n \in SkillNames, d \in TargetDirs, env \in Envs : CallUpdate(Leaf(1), n, d, env)

NextViews ==
    \/ ViewsBuild
    \/ ViewSearchCall
    \/ ViewGetCall
    \/ ViewGetSkillsCall
    \/ ViewInstallCall
    \/ ViewUpdateCall
    \/ RegistryUpdateCall
    \/ Return

SpecViews == InitOne /\ [][NextViews]_vars

----
(* GitSkillsRegistry in full: a caller constructs the registry, calls it,  *)
(* and changes the lists it was handed.                                    *)

\* repo_url of the registry where credentials play no part
ExampleUrl == <<"https://", "host", "/r">>

GitNames == {<<"a">>, <<".", ".", "/", "e">>, <<"x">>}
TargetPaths == {<<"d">>}

\* The paths install and update can touch.
DiskPaths ==
    {ResolveDir(d) : d \in TargetPaths}
        \cup {JoinResolved(ResolveDir(d), n) : d \in TargetPaths, n \in GitNames}

\* Disks before the first call: a path below a missing directory is missing,
\* and nothing was installed yet.
Disks ==
    {disk \in [DiskPaths -> {Absent, Directory, Other}] :
        \A p \in DiskPaths :
            /\ p \in {ResolveDir(d) : d \in TargetPaths} => disk[p] # Other
            /\ p \notin {ResolveDir(d) : d \in TargetPaths} => disk[p] # Directory
            /\ \A d \in TargetPaths :
                  (disk[ResolveDir(d)] = Absent /\ IsRelativeTo(p, ResolveDir(d)))
                      => disk[p] = Absent}

\* Before construction: the target directory and the disk as they happen to be.
InitGit ==
    /\ kind = <<"git">>
    /\ skills = << <<>> >>
    /\ installed = {}
    /\ calls = <<>>
    /\ last = NoCall
    /\ built = <<>>
    /\ tasks = <<>>
    /\ \E repo \in {"absent", "plain", "valid"}, tree \in Trees, disk \in Disks :
          /\ repo = "absent" => tree = <<>>
          /\ git = [constructed |-> FALSE, auto_install |-> FALSE,
                    repo_url |-> None, token |-> None,
                    clone_url |-> None, clean_repo_url |-> None, repo |-> repo,
                    tree |-> tree, heap |-> << <<>> >>, cache |-> 1, held |-> 0,
                    scanned |-> FALSE,
                    disk |-> disk, log |-> <<>>]

\* Lists no reference reaches are gone: the cache is list 1, a list the
\* caller holds that is not the cache is list 2.
Collect(g) ==
    [g EXCEPT !.heap = IF g.held \in {0, g.cache} THEN <<g.heap[g.cache]>>
                       ELSE <<g.heap[g.cache], g.heap[g.held]>>,
              !.cache = 1,
              !.held = IF g.held = 0 THEN 0 ELSE IF g.held = g.cache THEN 1 ELSE 2]

\* The world a call on the registry starts in.
GitNow == [git EXCEPT !.log = <<>>]

\* The state after a call on the registry that ended with outcome r; the
\* caller keeps the list get_skills returned.
GitDone(r, op, name, query, limit, dir) ==
    LET returned == op = "get_skills" /\ r.ok
    IN  /\ git' = Collect([r.w EXCEPT !.held = IF returned THEN r.val ELSE @,
                                      !.log = <<>>])
        /\ calls' = r.w.log
        /\ last' = [op |-> op, view |-> Leaf(1), name |-> name, query |-> query,
                    limit |-> limit, dir |-> dir, ok |-> r.ok,
                    val |-> IF returned THEN r.w.heap[r.val] ELSE r.val,
                    pre |-> git]
        /\ UNCHANGED <<kind, skills, installed, built, tasks>>

GitInitCall ==
    /\ Idle
    /\ ~git.constructed
    /\ \E auto_install \in BOOLEAN, env \in GitEnvs :
          GitDone(GitSkillsRegistryInit(GitNow, ExampleUrl, None, None, auto_install, env),
                  "init", <<>>, <<>>, 0, <<>>)
GitGetSkillsCall ==
    /\ Idle
    /\ git.constructed
    /\ \E env \in GitEnvs :
          GitDone(GitSkillsRegistryGetSkills(GitNow, env), "get_skills", <<>>, <<>>, 0, <<>>)
GitSearchCall ==
    /\ Idle
    /\ git.constructed
    /\ \E q \in Queries, l \in Limits, env \in GitEnvs :
          GitDone(GitSkillsRegistrySearch(GitNow, q, l, env), "search", <<>>, q, l, <<>>)
GitGetCall ==
    /\ Idle
    /\ git.constructed
    /\ \E n \in GitNames, env \in GitEnvs :
          GitDone(GitSkillsRegistryGet(GitNow, n, env), "get", n, <<>>, 0, <<>>)
GitInstallCall ==
    /\ Idle
    /\ git.constructed
    /\ \E n \in GitNames, d \in TargetPaths, env \in GitEnvs :
          GitDone(GitSkillsRegistryInstall(GitNow, n, d, env), "install", n, <<>>, 0, d)
GitUpdateCall ==
    /\ Idle
    /\ git.constructed
    /\ \E n \in GitNames, d \in TargetPaths, env \in GitEnvs :
          GitDone(GitSkillsRegistryUpdate(GitNow, n, d, env), "update", n, <<>>, 0, d)

\* The skill a caller puts into a list it holds.
Injected == [name |-> <<".", ".", "/", "e">>, description |-> <<"p">>, uri |-> <<"a">>,
             metadata |-> None]

\* The caller writes a file into an installed skill directory.
WriteExtra ==
    /\ Idle
    /\ git.constructed
    /\ \E p \in DiskPaths :
          /\ git.disk[p].state = "copy"
          /\ "extra.txt" \notin git.disk[p].files
          /\ git' = [git EXCEPT !.disk[p].files = @ \cup {"extra.txt"}]
          /\ last' = [NoCall EXCEPT !.op = "write", !.pre = git]
    /\ UNCHANGED <<kind, skills, installed, calls, built, tasks>>

\* The caller clears the list get_skills returned, or appends to it.
MutateReturned ==
    /\ Idle
    /\ git.constructed
    /\ git.held # 0
    /\ \E list \in {<<>>} \cup {Append(git.heap[git.held], Injected)} :
          /\ Len(list) <= MaxSkills
          /\ list # git.heap[git.held]
          /\ git' = [git EXCEPT !.heap[git.held] = list]
          /\ last' = [NoCall EXCEPT !.op = "mutate", !.val = list, !.pre = git]
    /\ UNCHANGED <<kind, skills, installed, calls, built, tasks>>

NextGit ==
    \/ GitInitCall
    \/ GitGetSkillsCall
    \/ GitSearchCall
    \/ GitGetCall
    \/ GitInstallCall
    \/ GitUpdateCall
    \/ MutateReturned
    \/ Return

SpecGit == InitGit /\ [][NextGit]_vars

----
(* Installing from a GitSkillsRegistry whose remote changes a skill's      *)
(* payload, into a directory the caller also writes to.                    *)

SyncEnvs == [sync : {"ok", "fail", "fail_again", "copy_fail"}, remote : PayloadTrees, says : {"url"}]
SyncNames == {<<"a">>, <<"x">>}

InitSync ==
    /\ kind = <<"git">>
    /\ skills = << <<>> >>
    /\ installed = {}
    /\ calls = <<>>
    /\ last = NoCall
    /\ built = <<>>
    /\ tasks = <<>>
    /\ \E repo \in {"absent", "plain", "valid"}, tree \in PayloadTrees, disk \in Disks :
          /\ repo = "absent" => tree = <<>>
          /\ git = [constructed |-> FALSE, auto_install |-> FALSE,
                    repo_url |-> None, token |-> None,
                    clone_url |-> None, clean_repo_url |-> None, repo |-> repo,
                    tree |-> tree, heap |-> << <<>> >>, cache |-> 1, held |-> 0,
                    scanned |-> FALSE,
                    disk |-> disk, log |-> <<>>]

SyncInitCall ==
    /\ Idle
    /\ ~git.constructed
    /\ \E auto_install \in BOOLEAN, env \in SyncEnvs :
          GitDone(GitSkillsRegistryInit(GitNow, ExampleUrl, None, None, auto_install, env),
                  "init", <<>>, <<>>, 0, <<>>)
SyncInstallCall ==
    /\ Idle
    /\ git.constructed
    /\ \E n \in SyncNames, d \in TargetPaths, env \in SyncEnvs :
          GitDone(GitSkillsRegistryInstall(GitNow, n, d, env), "install", n, <<>>, 0, d)
SyncUpdateCall ==
    /\ Idle
    /\ git.constructed
    /\ \E n \in SyncNames, d \in TargetPaths, env \in SyncEnvs :
          GitDone(GitSkillsRegistryUpdate(GitNow, n, d, env), "update", n, <<>>, 0, d)

NextSync ==
    \/ SyncInitCall
    \/ SyncInstallCall
    \/ SyncUpdateCall
    \/ WriteExtra
    \/ Return

SpecSync == InitSync /\ [][NextSync]_vars

----
(* A GitSkillsRegistry constructed on URLs with and without credentials,   *)
(* with and without a token, on skills whose SKILL.md carries metadata.    *)

\* repo_url arguments: no credentials; user and password; user only; an SSH
\* URL; a port and a ".git" suffix.
RepoUrls ==
    { <<"https://", "host", "/r">>,
      <<"https://", "u", ":", "w", "@", "host", "/r">>,
      <<"https://", "u", "@", "host", "/r">>,
      <<"ssh://", "u", "@", "host", "/r">>,
      <<"https://", "host", ":", "8", "/r", ".git", "/">> }

\* token arguments and values of GITHUB_TOKEN
Tokens == {None, <<"T">>}
EnvironTokens == {None, <<"E">>}

\* A skill without metadata, and one whose SKILL.md sets two keys, one of
\* them a key the registry sets too.
MetaSkills ==
    { [dir |-> <<"a">>, name |-> <<"a">>, description |-> <<"p">>,
       entries |-> {SkillFile}, metadata |-> None],
      [dir |-> <<"a">>, name |-> <<"a">>, description |-> <<"p">>,
       entries |-> {SkillFile},
       metadata |-> [author |-> <<"x">>, repo |-> <<"loader">>]] }
MetaTrees == {<<>>} \cup {<<t>> : t \in MetaSkills}

CredEnvs == [sync : {"ok", "fail"}, remote : MetaTrees, says : {"plain", "url", "masked"}]

InitCred ==
    /\ kind = <<"git">>
    /\ skills = << <<>> >>
    /\ installed = {}
    /\ calls = <<>>
    /\ last = NoCall
    /\ built = <<>>
    /\ tasks = <<>>
    /\ \E repo \in {"absent", "plain", "valid"}, tree \in MetaTrees :
          /\ repo = "absent" => tree = <<>>
          /\ git = [constructed |-> FALSE, auto_install |-> FALSE,
                    repo_url |-> None, token |-> None,
                    clone_url |-> None, clean_repo_url |-> None, repo |-> repo,
                    tree |-> tree, heap |-> << <<>> >>, cache |-> 1, held |-> 0,
                    scanned |-> FALSE,
                    disk |-> [p \in DiskPaths |-> Absent], log |-> <<>>]

CredInitCall ==
    /\ Idle
    /\ ~git.constructed
    /\ \E repo_url \in RepoUrls, token \in Tokens, environ \in EnvironTokens,
          auto_install \in BOOLEAN, env \in CredEnvs :
          GitDone(GitSkillsRegistryInit(GitNow, repo_url, token, environ, auto_install, env),
                  "init", <<>>, <<>>, 0, <<>>)
CredReprCall ==
    /\ Idle
    /\ git.constructed
    /\ GitDone(Ok(Repr(GitNow), GitNow), "repr", <<>>, <<>>, 0, <<>>)
CredGetCall ==
    /\ Idle
    /\ git.constructed
    /\ \E n \in SyncNames, env \in CredEnvs :
          GitDone(GitSkillsRegistryGet(GitNow, n, env), "get", n, <<>>, 0, <<>>)
CredInstallCall ==
    /\ Idle
    /\ git.constructed
    /\ \E n \in SyncNames, d \in TargetPaths, env \in CredEnvs :
          GitDone(GitSkillsRegistryInstall(GitNow, n, d, env), "install", n, <<>>, 0, d)
CredUpdateCall ==
    /\ Idle
    /\ git.constructed
    /\ \E n \in SyncNames, d \in TargetPaths, env \in CredEnvs :
          GitDone(GitSkillsRegistryUpdate(GitNow, n, d, env), "update", n, <<>>, 0, d)

NextCred ==
    \/ CredInitCall
    \/ CredReprCall
    \/ CredGetCall
    \/ CredInstallCall
    \/ CredUpdateCall
    \/ Return

SpecCred == InitCred /\ [][NextCred]_vars

-----------------------------------------------------------------------------
(* Properties *)

\* The call in hand is operation `op` on a view of class `cls`.
On(cls, op) == last.op = op /\ last.view.kind = cls

RaisedNotFound == ~last.ok /\ last.val.type = "SkillNotFoundError"

\* Call k of the log is the wrapped registry's `op`(name).
IsCall(k, op, reg, name) ==
    /\ k \in 1..Len(calls)
    /\ calls[k].op = op
    /\ calls[k].reg = reg
    /\ calls[k].name = name

Mutating(k) == calls[k].op \in {"install", "update"}

----
(* FilteredRegistry *)

\* What R.get(n) did during the call in hand: the first logged call.
InnerGetOk == calls[1].ok
InnerGetHidden == calls[1].ok /\ calls[1].val \notin last.view.predicate

\* C1: R.filtered(p).get(n) returns R.get(n) exactly when R.get(n) succeeds
\* and p accepts the skill; when R.get(n) raises not-found or p rejects the
\* skill it raises SkillNotFoundError.
C1_FilteredGet ==
    On("filtered", "get") =>
        /\ Len(calls) = 1
        /\ IsCall(1, "get", last.view.wrapped.reg, last.name)
        /\ last.ok <=> (InnerGetOk /\ calls[1].val \in last.view.predicate)
        /\ last.ok => last.val = calls[1].val
        /\ (InnerGetHidden \/ (~InnerGetOk /\ calls[1].val.type = "SkillNotFoundError"))
              => RaisedNotFound

\* A skill the wrapped registry holds is hidden by the predicate.
C1_Witness ==
    /\ On("filtered", "get")
    /\ InnerGetHidden
    /\ RaisedNotFound

\* C2: FilteredRegistry.install/update reach the wrapped install/update only
\* after get(n) succeeded and the predicate accepted the skill; otherwise the
\* error of that get is raised and no mutating call is made.
C2_FilteredInstallGuarded ==
    (On("filtered", "install") \/ On("filtered", "update")) =>
        /\ IsCall(1, "get", last.view.wrapped.reg, last.name)
        /\ \A k \in 1..Len(calls) : Mutating(k) =>
              /\ k = 2
              /\ InnerGetOk /\ ~InnerGetHidden
              /\ IsCall(2, last.op, last.view.wrapped.reg, last.name)
        /\ (InnerGetOk /\ ~InnerGetHidden) => Len(calls) = 2 /\ Mutating(2)
        /\ InnerGetHidden => RaisedNotFound /\ Len(calls) = 1
        /\ ~InnerGetOk => ~last.ok /\ last.val = calls[1].val /\ Len(calls) = 1

\* install of a skill the wrapped registry would serve is refused.
C2_Witness ==
    /\ On("filtered", "install")
    /\ InnerGetHidden
    /\ RaisedNotFound
    /\ Len(calls) = 1

----
(* PrefixedRegistry *)

\* The name in hand carries the view's prefix px; Unprefixed is the n of px+n.
Prefixed == StartsWith(last.name, last.view.prefix)
Unprefixed == SubSeq(last.name, Len(last.view.prefix) + 1, Len(last.name))

\* C3: for a non-empty prefix px, R.prefixed(px).get(px+n) makes the one call
\* R.get(n), succeeds iff it succeeds and returns its skill with only the
\* name replaced by px+n; get(m) for m not starting with px raises
\* SkillNotFoundError without consulting R.
C3_PrefixedGet ==
    (On("prefixed", "get") /\ last.view.prefix # <<>>) =>
        IF Prefixed
        THEN /\ Len(calls) = 1
             /\ IsCall(1, "get", last.view.wrapped.reg, Unprefixed)
             /\ last.ok <=> calls[1].ok
             /\ last.ok => last.val = [calls[1].val EXCEPT !.name = last.name]
             /\ ~last.ok => last.val = calls[1].val
        ELSE RaisedNotFound /\ calls = <<>>

\* A bare name that is the name of an inner skill is not found.
C3_Witness ==
    /\ On("prefixed", "get")
    /\ last.view.prefix # <<>>
    /\ ~Prefixed
    /\ HasName(skills[last.view.wrapped.reg], last.name)
    /\ RaisedNotFound

\* C4: PrefixedRegistry.install/update with a name that does not start with
\* the non-empty prefix raise SkillNotFoundError and never reach the wrapped
\* registry's install/update.
C4_PrefixedInstallRejectsBare ==
    ((On("prefixed", "install") \/ On("prefixed", "update"))
        /\ last.view.prefix # <<>> /\ ~Prefixed) =>
        /\ RaisedNotFound
        /\ \A k \in 1..Len(calls) : ~Mutating(k)

----
(* RenamedRegistry *)

MapKeys(m) == {m[k][1] : k \in 1..Len(m)}
MapOriginals(m) == {m[k][2] : k \in 1..Len(m)}

\* m[key] for a key of m
MapLookup(m, key) == m[CHOOSE k \in 1..Len(m) : m[k][1] = key][2]

\* No two keys of m map to the same original name, and no key is ''.
OneToOne(m) ==
    /\ \A j, k \in 1..Len(m) : j # k => m[j][2] # m[k][2]
    /\ <<>> \notin MapKeys(m)

\* The outcome in hand is the outcome of the one wrapped call `op`(name).
Delegated(op, name) ==
    /\ Len(calls) = 1
    /\ IsCall(1, op, last.view.wrapped.reg, name)
    /\ last.ok = calls[1].ok

\* The statement of C5 about the call in hand on R.renamed(m).
RenamedSubstitutes ==
    LET m == last.view.name_map
        held == last.pre[last.view.wrapped.reg]
    IN  /\ (last.op = "get" /\ last.name \in MapKeys(m)
              /\ HasName(held, MapLookup(m, last.name))) =>
              /\ Delegated("get", MapLookup(m, last.name))
              /\ last.ok => last.val = [calls[1].val EXCEPT !.name = last.name]
        /\ (last.op \in {"install", "update"} /\ last.name \in MapKeys(m)
              /\ HasName(held, MapLookup(m, last.name))) =>
              /\ Delegated(last.op, MapLookup(m, last.name))
              /\ last.val = calls[1].val
        /\ (last.op \in {"get", "install", "update"}
              /\ last.name \notin MapKeys(m) \cup MapOriginals(m)) =>
              /\ Delegated(last.op, last.name)
              /\ last.val = calls[1].val
        /\ (last.op \in {"search", "get_skills"} /\ last.ok) =>
              /\ Len(calls) = 1 /\ calls[1].op = last.op
              /\ Len(last.val) = Len(calls[1].val)
              /\ \A j \in 1..Len(last.val) :
                    LET r == calls[1].val[j]
                    IN  /\ \A key \in MapKeys(m) : MapLookup(m, key) = r.name =>
                              last.val[j] = [r EXCEPT !.name = key]
                        /\ r.name \notin MapKeys(m) \cup MapOriginals(m) =>
                              last.val[j] = r

\* C5 as claimed, for every name_map: a key k whose original m[k] exists in R
\* is resolved to m[k] by get/install/update, get returns that skill under
\* name k, search and get_skills emit it under name k; names that are neither
\* key nor value pass unchanged.
C5_RenamedAnyMap == last.view.kind = "renamed" => RenamedSubstitutes

\* C5 amended: the same, for every name_map in which no two keys map to the
\* same original name and no key is the empty string.
C5_RenamedOneToOne ==
    (last.view.kind = "renamed" /\ OneToOne(last.view.name_map)) => RenamedSubstitutes

\* get(k) for a key k returned the original skill under the name k.
C5_Witness ==
    /\ On("renamed", "get")
    /\ OneToOne(last.view.name_map)
    /\ last.name \in MapKeys(last.view.name_map)
    /\ last.ok
    /\ last.val.name = last.name
    /\ calls[1].val.name # last.name

\* The names of the list are pairwise distinct.
DistinctNames(list) ==
    \A j, k \in 1..Len(list) : j # k => list[j].name # list[k].name

\* Emitted skill j of get_skills() resolves back, through m, to the record of
\* R it was derived from, and equals it in every field but the name.
RoundTrips(j) ==
    LET m == last.view.name_map
        held == last.pre[last.view.wrapped.reg]
        s == last.val[j]
        r == calls[1].val[j]
        back == IF s.name \in MapKeys(m) THEN MapLookup(m, s.name) ELSE s.name
    IN  /\ HasName(held, back)
        /\ FirstNamed(held, back) = r
        /\ s = [r EXCEPT !.name = s.name]

RenamedSnapshot ==
    /\ On("renamed", "get_skills")
    /\ last.ok
    /\ DistinctNames(last.pre[last.view.wrapped.reg])

\* C6 as claimed: every skill emitted by R.renamed(m).get_skills(), R having
\* distinct names, round-trips through m to the record it was derived from.
C6_RenameRoundTrip ==
    RenamedSnapshot =>
        /\ Len(last.val) = Len(calls[1].val)
        /\ \A j \in 1..Len(last.val) : RoundTrips(j)

\* C6 amended: the round trip holds for every emitted skill except one that
\* keeps its original name while that name is also a key of m.
C6_RenameRoundTripUnlessKey ==
    RenamedSnapshot =>
        /\ Len(last.val) = Len(calls[1].val)
        /\ \A j \in 1..Len(last.val) :
              ~(last.val[j].name = calls[1].val[j].name
                  /\ last.val[j].name \in MapKeys(last.view.name_map))
                => RoundTrips(j)

\* A renamed skill was emitted and found again under its original name.
C6_Witness ==
    /\ RenamedSnapshot
    /\ \E j \in 1..Len(last.val) :
          /\ last.val[j].name # calls[1].val[j].name
          /\ RoundTrips(j)

----
(* CombinedRegistry *)

\* The concrete registry behind child k of the combined registry in hand.
ChildReg(k) == last.view.registries[k].reg
NumChildren == Len(last.view.registries)

\* Child k held a skill named as asked when the call began.
Holds(k) == HasName(last.pre[ChildReg(k)], last.name)

CallNotFound(k) == ~calls[k].ok /\ calls[k].val.type = "SkillNotFoundError"

\* The list without every record whose name occurred earlier in it.
RECURSIVE FirstOccurrences(_)
FirstOccurrences(list) ==
    IF list = <<>> THEN <<>>
    ELSE LET front == SubSeq(list, 1, Len(list) - 1)
             x == list[Len(list)]
         IN  IF \E i \in 1..Len(front) : front[i].name = x.name
             THEN FirstOccurrences(front)
             ELSE Append(FirstOccurrences(front), x)

\* The values returned by the logged calls, concatenated in call order.
RECURSIVE Returned(_)
Returned(k) == IF k = 0 THEN <<>> ELSE Returned(k - 1) \o calls[k].val

\* C7: CombinedRegistry.get(n) asks the children in list order, goes on only
\* after a not-found, and returns the first success: the earliest child that
\* holds n answers, on every call (get changes nothing); when every child
\* raises not-found, SkillNotFoundError names the number of registries.
C7_CombinedGetFirstMatch ==
    On("combined", "get") =>
        /\ Len(calls) <= NumChildren
        /\ \A k \in 1..Len(calls) : IsCall(k, "get", ChildReg(k), last.name)
        /\ \A k \in 1..(Len(calls) - 1) : CallNotFound(k)
        /\ last.ok => Len(calls) >= 1 /\ last.val = calls[Len(calls)].val
        /\ (Len(calls) = NumChildren /\ \A k \in 1..NumChildren : CallNotFound(k)) =>
              /\ RaisedNotFound
              /\ last.val.name = last.name
              /\ last.val.count = NumChildren
        /\ (last.ok \/ RaisedNotFound) =>
              IF \E k \in 1..NumChildren : Holds(k)
              THEN LET first == CHOOSE k \in 1..NumChildren :
                                    Holds(k) /\ \A j \in 1..(k - 1) : ~Holds(j)
                   IN  /\ last.ok
                       /\ last.val = FirstNamed(last.pre[ChildReg(first)], last.name)
              ELSE RaisedNotFound /\ last.val.count = NumChildren
        /\ skills = last.pre

\* Two children hold different records of the name; the first child's is returned.
C7_Witness ==
    /\ On("combined", "get")
    /\ NumChildren = 2
    /\ Holds(1) /\ Holds(2)
    /\ FirstNamed(last.pre[ChildReg(1)], last.name)
          # FirstNamed(last.pre[ChildReg(2)], last.name)
    /\ last.ok
    /\ last.val = FirstNamed(last.pre[ChildReg(1)], last.name)

\* C8: CombinedRegistry.search(q, limit) returns the children's
\* search(q, limit) results concatenated in child order, later records of a
\* seen name dropped, cut to the first `limit` records.
C8_CombinedSearchMerge ==
    (On("combined", "search") /\ last.ok) =>
        /\ Len(calls) = NumChildren
        /\ \A k \in 1..NumChildren :
              /\ IsCall(k, "search", ChildReg(k), last.query)
              /\ calls[k].limit = last.limit
        /\ last.val = Take(FirstOccurrences(Returned(Len(calls))), last.limit)

\* C10: CombinedRegistry.get_skills() is the children's snapshots concatenated
\* in list order with later duplicates by name removed; its names are pairwise
\* distinct, and for children [R, R] it is R.get_skills() deduplicated.
C10_CombinedGetSkills ==
    (On("combined", "get_skills") /\ last.ok) =>
        /\ Len(calls) = NumChildren
        /\ \A k \in 1..NumChildren :
              /\ IsCall(k, "get_skills", ChildReg(k), <<>>)
              /\ calls[k].val = last.pre[ChildReg(k)]
        /\ last.val = FirstOccurrences(Returned(Len(calls)))
        /\ DistinctNames(last.val)
        /\ (NumChildren = 2 /\ ChildReg(1) = ChildReg(2)) =>
              last.val = FirstOccurrences(last.pre[ChildReg(1)])

\* [R, R] with R holding a name twice: one record of the name is returned.
C10_Witness ==
    /\ On("combined", "get_skills")
    /\ last.ok
    /\ NumChildren = 2
    /\ ChildReg(1) = ChildReg(2)
    /\ ~DistinctNames(last.pre[ChildReg(1)])
    /\ Len(last.val) < Len(last.pre[ChildReg(1)])

\* C9: CombinedRegistry.install/update call a child's install/update only
\* right after that child's get(n) succeeded, going through the children in
\* list order and on to the next only after a not-found; a child that does
\* not hold n is never asked to install, and when every get raises not-found
\* the call raises SkillNotFoundError with no install/update made.
C9_CombinedInstallAfterGet ==
    (On("combined", "install") \/ On("combined", "update")) =>
        LET gets == SelectSeq(calls, LAMBDA c : c.op = "get")
        IN  /\ \A k \in 1..Len(calls) :
                  /\ calls[k].op \in {"get", last.op}
                  /\ calls[k].name = last.name
                  /\ k < Len(calls) => calls[k].ok \/ CallNotFound(k)
            /\ Len(gets) <= NumChildren
            /\ \A j \in 1..Len(gets) : gets[j].reg = ChildReg(j)
            /\ \A k \in 1..Len(calls) : Mutating(k) =>
                  /\ k > 1
                  /\ calls[k - 1].op = "get"
                  /\ calls[k - 1].reg = calls[k].reg
                  /\ calls[k - 1].ok
                  /\ HasName(last.pre[calls[k].reg], last.name)
            /\ \A k \in 1..Len(calls) : (calls[k].op = "get" /\ calls[k].ok) =>
                  /\ k < Len(calls)
                  /\ Mutating(k + 1)
                  /\ calls[k + 1].reg = calls[k].reg
            /\ last.ok => Mutating(Len(calls)) /\ last.val = calls[Len(calls)].val
            /\ (Len(calls) = NumChildren /\ \A k \in 1..NumChildren : CallNotFound(k)) =>
                  RaisedNotFound
            /\ (\A k \in 1..NumChildren : ~Holds(k)) =>
                  /\ ~last.ok
                  /\ \A k \in 1..Len(calls) : ~Mutating(k)
                  /\ RaisedNotFound \/ ~(calls[Len(calls)].ok \/ CallNotFound(Len(calls)))

\* install is routed past a child that lacks the skill to the one that holds it.
C9_Witness ==
    /\ On("combined", "install")
    /\ last.ok
    /\ Len(calls) = 3
    /\ CallNotFound(1)
    /\ calls[2].op = "get" /\ calls[2].ok
    /\ calls[3].op = "install" /\ calls[3].reg = calls[2].reg
    /\ calls[3].reg # calls[1].reg

\* Child k held a skill of that name when the call began.
HoldsName(k, name) == HasName(last.pre[ChildReg(k)], name)

\* The record CombinedRegistry.get(name) returns: the one of the earliest
\* child in the list that holds the name.
Winner(name) ==
    LET first == CHOOSE k \in 1..NumChildren :
                     HoldsName(k, name) /\ \A j \in 1..(k - 1) : ~HoldsName(j, name)
    IN  FirstNamed(last.pre[ChildReg(first)], name)

\* C11: every record a CombinedRegistry returns from search or get_skills is
\* the record get(name) returns, that of the earliest child holding the name:
\* a later child's record of a name an earlier child holds is never returned
\* (children whose own names are pairwise distinct).
C11_CombinedReadsAgree ==
    ( /\ On("combined", "search") \/ On("combined", "get_skills")
      /\ last.ok
      /\ \A k \in 1..NumChildren : DistinctNames(last.pre[ChildReg(k)]) ) =>
        \A j \in 1..Len(last.val) : last.val[j] = Winner(last.val[j].name)

\* C12: when a child's search raises, CombinedRegistry.search raises that
\* child's exception (the first one raised) and returns no result, whatever
\* the other children returned; it succeeds only when every child did.
C12_CombinedSearchPropagates ==
    On("combined", "search") =>
        /\ Len(calls) = NumChildren
        /\ \A k \in 1..NumChildren : IsCall(k, "search", ChildReg(k), last.query)
        /\ last.ok <=> \A k \in 1..NumChildren : calls[k].ok
        /\ (\E k \in 1..NumChildren : ~calls[k].ok) =>
              LET first == CHOOSE k \in 1..NumChildren :
                               ~calls[k].ok /\ \A j \in 1..(k - 1) : calls[j].ok
              IN  last.val = calls[first].val

\* One child's search raised while another child's search returned skills.
C12_Witness ==
    /\ On("combined", "search")
    /\ NumChildren = 2
    /\ \E k \in 1..2 : ~calls[k].ok /\ calls[k].val.type = "SkillRegistryError"
    /\ \E k \in 1..2 : calls[k].ok /\ calls[k].val # <<>>
    /\ ~last.ok
    /\ last.val.type = "SkillRegistryError"

----
(* Every registry variant *)

\* C13: search(query, limit) returns at most `limit` skills, on a concrete
\* registry and on every chain of views, for every limit >= 0.
C13_SearchAtMostLimit ==
    (last.op = "search" /\ last.ok) => Len(last.val) <= last.limit

\* The skills a view shows: its get_skills() on the registries as they were
\* when the call in hand began, the outside world cooperating.
Visible ==
    GetSkills(last.view, World(last.pre, {}, <<>>), [i \in DOMAIN skills |-> "ok"]).val

VisibleMatching == SelectSeq(Visible, LAMBDA s : Matches(last.query, s))

\* C14: every skill search(q) returns contains q, case-insensitively, in the
\* name or description it is returned with, and up to the limit every visible
\* skill whose visible name or description contains q is returned.
C14_SearchMatchesVisible ==
    (last.op = "search" /\ last.ok) =>
        /\ \A j \in 1..Len(last.val) : Matches(last.query, last.val[j])
        /\ IF Len(VisibleMatching) <= last.limit
           THEN \A k \in 1..Len(VisibleMatching) :
                    \E j \in 1..Len(last.val) : last.val[j] = VisibleMatching[k]
           ELSE Len(last.val) >= last.limit

\* C15: a successful get(n) returns a skill named n.
C15_GetReturnsName ==
    (last.op = "get" /\ last.ok) => last.val.name = last.name

----
(* GitSkillsRegistry in full *)

\* The call in hand is operation `op` of the GitSkillsRegistry.
OnGit(op) == last.op = op
Synced == \E k \in 1..Len(calls) : calls[k] \in {"clone", "pull"}

\* C16: GitSkillsRegistry.search and get run no clone and no pull and leave
\* the working tree as it is, in every state of the registry.
C16_GitReadsCacheOnly ==
    (OnGit("search") \/ OnGit("get")) =>
        /\ ~Synced
        /\ git.tree = last.pre.tree
        /\ git.repo = last.pre.repo

\* The list object the caller holds.
HeldList(g) == g.heap[g.held]

\* One step of the caller seen from the lists: changing the returned list
\* leaves the cache as it is; a call that is not get_skills, whatever it does
\* to the cache, leaves the returned list as it is; get_skills hands out a
\* list that is not the cache and holds what the cache holds.
C17Step ==
    /\ last'.op = "mutate" =>
          /\ Cache(git') = Cache(git)
          /\ HeldList(git') = last'.val
    /\ (last'.op \in {"search", "get", "install", "update"} /\ git.held # 0) =>
          /\ git'.held # 0
          /\ HeldList(git') = HeldList(git)
    /\ (last'.op = "get_skills" /\ last'.ok) =>
          /\ git'.held # git'.cache
          /\ HeldList(git') = Cache(git')

\* C17: the list get_skills() returns is never the cache list: changing it
\* never changes what the registry observes, and a refresh or update, which
\* binds the cache to a new list, never changes a list returned earlier.
C17_ReturnedListNotAliased == [][C17Step]_vars

\* The caller changed the list it was handed, then update replaced the cache
\* by other skills: the caller's list kept what the caller made of it.
C17_Witness ==
    /\ OnGit("update")
    /\ last.pre.held # 0
    /\ \E k \in 1..Len(HeldList(last.pre)) : HeldList(last.pre)[k] = Injected
    /\ \A k \in 1..Len(Cache(last.pre)) : Cache(last.pre)[k] # Injected
    /\ Cache(git) # Cache(last.pre)
    /\ git.held # 0
    /\ HeldList(git) = HeldList(last.pre)

DestRoot == ResolveDir(last.dir)
Dest == JoinResolved(DestRoot, last.name)
Outside(p) == ~IsRelativeTo(p, DestRoot)

\* C19: install(name, target_dir) of a cached skill whose name makes
\* target_dir/name resolve outside target_dir raises SkillRegistryError, and
\* every path outside target_dir is left as it was.
C19_InstallRejectsTraversalName ==
    (OnGit("install") /\ HasName(Cache(git), last.name) /\ Outside(Dest)) =>
        /\ ~last.ok
        /\ last.val.type = "SkillRegistryError"
        /\ \A p \in DiskPaths : Outside(p) => git.disk[p] = last.pre.disk[p]

\* The skill named '../e' is cached and the path it points to exists outside
\* the target directory; install created the target directory and raised.
C19_Witness ==
    /\ OnGit("install")
    /\ last.name = <<".", ".", "/", "e">>
    /\ HasName(Cache(git), last.name)
    /\ Dest = <<<<"e">>>>
    /\ last.pre.disk[Dest] = Other
    /\ last.pre.disk[DestRoot] = Absent
    /\ git.disk[DestRoot] = Directory
    /\ ~last.ok
    /\ last.val.where = "destination escapes"
    /\ git.disk[Dest] = Other

\* The directory of the tree the cached skill of that name points to holds a
\* file or symlink that resolves outside it.
CachedSourceEscapes ==
    /\ HasName(Cache(git), last.name)
    /\ HasDir(git, FirstNamed(Cache(git), last.name).uri)
    /\ EscapingLink \in SourceDir(git, FirstNamed(Cache(git), last.name).uri).entries

\* C20: install of a skill whose source directory holds a file or symlink
\* resolving outside it raises SkillRegistryError; nothing is copied and
\* what was at target_dir/name before is still there.
C20_InstallRejectsEscapingSource ==
    (OnGit("install") /\ CachedSourceEscapes) =>
        /\ ~last.ok
        /\ last.val.type = "SkillRegistryError"
        /\ \A p \in DiskPaths : p # DestRoot => git.disk[p] = last.pre.disk[p]

\* A directory was at target_dir/name; install of the skill with the escaping
\* file raised on the source check and the directory is still there.
C20_Witness ==
    /\ OnGit("install")
    /\ CachedSourceEscapes
    /\ last.pre.disk[Dest] = Other
    /\ ~last.ok
    /\ last.val.where = "source escapes"
    /\ git.disk[Dest] = Other

-----------------------------------------------------------------------------
\* The source directory of the skill the call installed, as the tree holds it.
InstalledSource == SourceDir(git, FirstNamed(Cache(git), last.name).uri)
Installs == OnGit("install") \/ OnGit("update")

\* C21: after a successful install(n, d), directly or as the last step of
\* update, the files under d/n are exactly the files of the skill's source
\* directory, whatever d/n held before the call.
C21_InstallReplacesDestination ==
    (Installs /\ last.ok) =>
        /\ git.disk[Dest].state = "copy"
        /\ git.disk[Dest].files = {f.name : f \in InstalledSource.entries}

\* A reinstall over a directory that holds a file of the earlier payload and
\* a file the caller added: neither survives.
C21_Witness ==
    /\ Installs
    /\ last.ok
    /\ {"resource.txt", "extra.txt"} \subseteq last.pre.disk[Dest].files
    /\ git.disk[Dest].files = {"SKILL.md"}

-----------------------------------------------------------------------------
\* update(n, d) found d/n missing, or found it.
UpdateFresh == OnGit("update") /\ ~PathExists(last.pre, DestRoot, last.name)
UpdateInstalled == OnGit("update") /\ PathExists(last.pre, DestRoot, last.name)

\* The call ended as install(n, d) can end from the state it started in:
\* same outcome, same git commands, same registry and disk afterwards.
AsInstall ==
    \E env \in SyncEnvs :
        LET r == GitSkillsRegistryInstall(last.pre, last.name, last.dir, env)
        IN  /\ last.ok = r.ok
            /\ last.val = r.val
            /\ calls = r.w.log
            /\ git = Collect([r.w EXCEPT !.log = <<>>])

\* The call synchronised first, then scanned the tree, and copied last; when
\* it succeeded the cache is the scan of the tree as synchronised and the
\* destination holds the files of that tree's skill directory.
SyncedThenReinstalled ==
    /\ calls # <<>>
    /\ calls[1] \in {"pull", "clone"}
    /\ Len(calls) >= 2 => calls[2] = "scan"
    /\ \A k \in 1..(Len(calls) - 1) : calls[k] # "copy"
    /\ last.ok =>
          /\ calls[Len(calls)] = "copy"
          /\ Cache(git) = Discovered(git).val
          /\ git.disk[Dest].files = {f.name : f \in InstalledSource.entries}

-----------------------------------------------------------------------------
\* The call had to synchronise a target directory that exists and is not a
\* valid repository: construction with auto_install, or update of an
\* installed skill.
SyncOfCorrupted ==
    /\ OnGit("init") \/ UpdateInstalled
    /\ last.pre.repo = "plain"
    /\ Synced

\* C30: a synchronisation that finds the target directory not to be a valid
\* repository removes it and clones again, and raises no error for the state
\* of the directory.
C30_CorruptedTreeRecloned ==
    SyncOfCorrupted =>
        /\ \E k \in 1..(Len(calls) - 1) : calls[k] = "rmtree" /\ calls[k + 1] = "clone"
        /\ ~last.ok => last.val.where # "clone: destination not empty"

-----------------------------------------------------------------------------
\* The call failed in a clone, in a pull or in the copy.
TransportOrCopyFailure ==
    /\ OnGit("init") \/ Installs
    /\ ~last.ok
    /\ last.val.where \in {"clone", "clone: destination not empty", "pull", "copy"}

\* C24: a clone, pull or copy failure during construction, install or update
\* reaches the caller as SkillRegistryError chained from the original
\* exception.
C24_FailuresWrapped ==
    TransportOrCopyFailure =>
        /\ last.val.type = "SkillRegistryError"
        /\ last.val.cause # "none"

-----------------------------------------------------------------------------
\* The values of the metadata of the cached skills.
CachedMetadataValues ==
    {Cache(git)[k].metadata[key] :
        k \in 1..Len(Cache(git)), key \in {"source_url", "registry", "repo", "version"}}

\* C23: the token of a registry (argument or GITHUB_TOKEN) occurs neither in
\* repr(registry), which is also str(registry), nor in the metadata of a
\* skill, nor in the message of an error raised by construction, install or
\* update.
C23_TokenNeverShown ==
    git.token # None =>
        /\ OnGit("repr") => ~Occurs(git.token[1], last.val)
        /\ \A v \in CachedMetadataValues : ~Occurs(git.token[1], v)
        /\ ((OnGit("init") \/ Installs) /\ ~last.ok) =>
              ~Occurs(git.token[1], last.val.message)

\* Construction with a token failed in a clone whose output names the URL it
\* ran on.
C23_Witness ==
    /\ OnGit("init")
    /\ ~last.ok
    /\ git.token = <<"T">>
    /\ Occurs("oauth2", git.clone_url)
    /\ Occurs("cmdline", last.val.message)
    /\ Occurs("/", last.val.message)

-----------------------------------------------------------------------------
RegistryKeys == {"source_url", "registry", "repo", "version"}

\* The repository URL without credentials: an HTTP(S) URL without its user
\* information; a URL of another transport as it is.
CredentialFree(url) ==
    LET Bare(parsed) ==
            IF parsed.scheme \in {"http://", "https://"}
            THEN UrlUnparse(parsed, IF parsed.port # None
                                    THEN parsed.hostname \o <<":">> \o parsed.port
                                    ELSE parsed.hostname)
            ELSE url
    IN  Bare(UrlParse(url))

\* The metadata the loader read for cached skill k.
LoaderMetadata(k) == SourceDir(git, Cache(git)[k].uri).metadata

\* C29: every cached skill has the keys source_url, registry, repo and
\* version; repo is the repository URL without credentials; the other keys
\* are the loader's, with the loader's values.
C29_CachedSkillsEnriched ==
    \A k \in 1..Len(Cache(git)) :
        LET m == Cache(git)[k].metadata
        IN  /\ RegistryKeys \subseteq DOMAIN m
            /\ m.repo = CredentialFree(git.repo_url)
            /\ \A key \in DOMAIN LoaderMetadata(k) \ RegistryKeys :
                  key \in DOMAIN m /\ m[key] = LoaderMetadata(k)[key]

-----------------------------------------------------------------------------
\* The last call was search, get or get_skills on a view.
ViewRead == last.op \in {"search", "get", "get_skills"} /\ last.view.kind # "leaf"

\* The records the last call returned.
ReturnedRecords ==
    IF last.op = "get" THEN {last.val} ELSE {last.val[k] : k \in 1..Len(last.val)}

\* The record view v shows for record s of the registry under it: s with the
\* prefixes and renames of the views of v, and of no other view.
RECURSIVE EmittedBy(_, _)
EmittedBy(v, s) ==
    CASE v.kind = "leaf" -> s
      [] v.kind \in {"wrapper", "filtered"} -> EmittedBy(v.wrapped, s)
      [] v.kind = "prefixed" ->
            [EmittedBy(v.wrapped, s) EXCEPT !.name = v.prefix \o @]
      [] v.kind = "renamed" ->
            LET inner == EmittedBy(v.wrapped, s)
            IN  IF \E k \in 1..Len(v.name_map) :
                       v.name_map[k][2] = inner.name /\ v.name_map[k][1] # <<>>
                THEN [inner EXCEPT !.name =
                         v.name_map[CHOOSE k \in 1..Len(v.name_map) :
                                       /\ v.name_map[k][2] = inner.name
                                       /\ \A j \in (k + 1)..Len(v.name_map) :
                                             v.name_map[j][2] # inner.name][1]]
                ELSE inner

\* C25: search, get and get_skills on a view leave the records of the wrapped
\* registry as they were, and every record they return is a record of the
\* registry under the prefixes and renames of that view alone.
C25_ViewReadsLeaveRegistry ==
    ViewRead =>
        /\ skills = last.pre
        /\ last.ok =>
              \A r \in ReturnedRecords :
                  \E k \in 1..Len(last.pre[1]) : r = EmittedBy(last.view, last.pre[1][k])

\* get_skills on a view that prefixes or renames returned a record under a name
\* the registry does not hold.
C25_Witness ==
    /\ ViewRead /\ last.ok /\ last.op = "get_skills"
    /\ last.view.kind \in {"prefixed", "renamed"}
    /\ \E r \in ReturnedRecords :
          \A k \in 1..Len(skills[1]) : skills[1][k].name # r.name

-----------------------------------------------------------------------------
\* The last call was a read on the view the caller keeps.
KeptRead == ViewRead /\ HasKept /\ last.view = Kept

\* The outcome of the last read, made instead on view v in the state before it.
ReadAgain(v, env) ==
    LET w == World(last.pre, installed, <<>>)
    IN  CASE last.op = "search" -> Search(v, last.query, last.limit, w, env)
          [] last.op = "get" -> Get(v, last.name, w, env)
          [] last.op = "get_skills" -> GetSkills(v, w, env)

-----------------------------------------------------------------------------
\* The last call was search, get, install or update on a view.
ViewCall == last.op \in {"search", "get", "install", "update"} /\ last.view.kind # "leaf"

\* The calls of the last operation that the registry answered with an exception.
RaisedInside == {k \in 1..Len(calls) : ~calls[k].ok}

\* The filtered view's not-found for a skill the registry returned.
HiddenByFilter ==
    /\ last.val.type = "SkillNotFoundError" /\ last.val.where = "filtered"
    /\ calls # <<>> /\ calls[Len(calls)].op = "get" /\ calls[Len(calls)].ok

\* The prefixed view's not-found for a name without its prefix, raised before
\* the registry is asked anything.
RejectedByPrefix ==
    /\ last.val.type = "SkillNotFoundError" /\ last.val.where = "prefixed"
    /\ calls = <<>>

\* C27: an exception the registry raises comes out of any chain of wrapper,
\* filtered, prefixed and renamed views as the same exception; where the
\* registry raised none and the call on the view still failed, the registry
\* returned a skill that a filtered view hides, or a prefixed view refused the
\* name without asking the registry.
C27_InnerErrorsUnchanged ==
    ViewCall =>
        /\ \A k \in RaisedInside : ~last.ok /\ last.val = calls[k].val
        /\ ~last.ok /\ RaisedInside = {} => HiddenByFilter \/ RejectedByPrefix

\* A SkillRegistryError of the registry came out of update on a chain of two
\* views.
C27_Witness ==
    /\ ViewCall /\ last.op = "update" /\ ~last.ok
    /\ last.view.kind = "renamed" /\ last.view.wrapped.kind = "filtered"
    /\ RaisedInside # {}
    /\ last.val.type = "SkillRegistryError"

-----------------------------------------------------------------------------
\* The records view v emits when the registry under it holds `list`: each
\* layer works on what the layer it wraps emits.
RECURSIVE Emitted(_, _)
Emitted(v, list) ==
    CASE v.kind = "leaf" -> list
      [] v.kind = "wrapper" -> Emitted(v.wrapped, list)
      [] v.kind = "filtered" ->
            SelectSeq(Emitted(v.wrapped, list), LAMBDA s : s \in v.predicate)
      [] v.kind \in {"prefixed", "renamed"} ->
            LET inner == Emitted(v.wrapped, list)
            IN  [k \in 1..Len(inner) |->
                    EmittedBy([v EXCEPT !.wrapped = Leaf(1)], inner[k])]

\* What get(name) on view v finds when the registry holds `list`: <<>> or the
\* one record.  A prefixed layer asks the layer below for the name without
\* the prefix, a renamed layer for the original name; a filtered layer asks
\* its predicate about the record the layer below returned.
RECURSIVE Found(_, _, _)
Found(v, name, list) ==
    CASE v.kind = "leaf" ->
            IF \E k \in 1..Len(list) : list[k].name = name
            THEN <<list[CHOOSE k \in 1..Len(list) :
                          /\ list[k].name = name
                          /\ \A j \in 1..(k - 1) : list[j].name # name]>>
            ELSE <<>>
      [] v.kind = "wrapper" -> Found(v.wrapped, name, list)
      [] v.kind = "filtered" ->
            SelectSeq(Found(v.wrapped, name, list), LAMBDA s : s \in v.predicate)
      [] v.kind = "prefixed" ->
            IF Len(name) >= Len(v.prefix) /\ SubSeq(name, 1, Len(v.prefix)) = v.prefix
            THEN Emitted([v EXCEPT !.wrapped = Leaf(1)],
                         Found(v.wrapped, SubSeq(name, Len(v.prefix) + 1, Len(name)), list))
            ELSE <<>>
      [] v.kind = "renamed" ->
            LET original ==
                    IF \E k \in 1..Len(v.name_map) : v.name_map[k][1] = name
                    THEN v.name_map[CHOOSE k \in 1..Len(v.name_map) :
                                       v.name_map[k][1] = name][2]
                    ELSE name
            IN  Emitted([v EXCEPT !.wrapped = Leaf(1)], Found(v.wrapped, original, list))

\* The last call was a read on a view that no failure of the registry's
\* synchronisation interrupted.
ViewReadThrough == ViewRead /\ (last.ok \/ last.val.type = "SkillNotFoundError")

\* C28: in a chain each view works on the names emitted by the layer it wraps.
\* get_skills returns the registry's records passed through the layers from
\* the innermost out; get(name) succeeds exactly when passing the name inwards
\* (prefix stripped, rename undone) finds a record that every filter accepts
\* under the name it has at that filter, and returns it under the outermost
\* name; search returns only records that get_skills returns.
C28_ChainLayersInOrder ==
    ViewReadThrough =>
        CASE last.op = "get_skills" ->
                last.ok /\ last.val = Emitted(last.view, last.pre[1])
          [] last.op = "get" ->
                LET found == Found(last.view, last.name, last.pre[1])
                IN  /\ last.ok <=> found # <<>>
                    /\ last.ok => last.val = found[1]
          [] last.op = "search" ->
                /\ last.ok
                /\ \A r \in ReturnedRecords :
                      \E k \in 1..Len(Emitted(last.view, last.pre[1])) :
                          r = Emitted(last.view, last.pre[1])[k]

\* get on registry.filtered(p).prefixed('x').renamed({'x': 'xa'}) returned the
\* registry's record 'a' under the name 'x'.
C28_Witness ==
    /\ ViewReadThrough /\ last.op = "get" /\ last.ok
    /\ last.view.kind = "renamed"
    /\ last.view.wrapped.kind = "prefixed"
    /\ last.view.wrapped.wrapped.kind = "filtered"
    /\ last.name = <<"x">> /\ last.val.name = <<"x">>
    /\ calls # <<>> /\ calls[Len(calls)].name = <<"a">>

-----------------------------------------------------------------------------
\* How many times the call in hand ran step `step`.
Ran(step) == Cardinality({k \in 1..Len(calls) : calls[k] = step})

-----------------------------------------------------------------------------
\* C32: with auto_install=False construction scans nothing, and get_skills,
\* search, get and install scan the tree only if no earlier call on the
\* registry has scanned it, and then once, whether or not the scan found
\* skills.
C32_ScannedAtMostOnce ==
    ~git.auto_install =>
        /\ OnGit("init") => Ran("scan") = 0
        /\ last.op \in {"get_skills", "search", "get", "install"} =>
              /\ Ran("scan") <= 1
              /\ last.pre.scanned => Ran("scan") = 0

-----------------------------------------------------------------------------
(* C33 *)

\* The environment every child search of the last gather ran in.
GatherEnvs == {env \in Envs : \A k \in 1..Len(tasks) : tasks[k].env = env}

\* C33: CombinedRegistry.search starts a search for every child, merges only
\* once every one of them has finished, and whatever the order in which they
\* finished returns what the children's results give when merged in the
\* order of the child list: the result of running the children one after
\* the other.
C33_GatherMergesInChildOrder ==
    /\ last.op = "gather" =>
          /\ Len(tasks) = Len(last.view.registries)
          /\ \A k \in 1..Len(tasks) : tasks[k].reg = last.view.registries[k]
    /\ (last.op = "search" /\ last.ok) =>
          /\ \A k \in 1..Len(tasks) : tasks[k].done /\ tasks[k].ok
          /\ Len(calls) = Len(last.view.registries)
          /\ last.val = CombinedMerge(Flatten([k \in 1..Len(tasks) |-> tasks[k].val]),
                                      1, last.limit, <<>>)
          /\ \A env \in GatherEnvs :
                LET In(r) == r.ok /\ r.val = last.val
                IN  In(CombinedSearch(last.view, last.query, last.limit,
                                      World(last.pre, installed, <<>>), env))

\* A search over <<git, stub>> has returned one skill of each child, the
\* first child's first, although the second child's search finished first.
C33_Witness ==
    /\ last.op = "search" /\ last.ok
    /\ last.view.registries = <<Leaf(1), Leaf(2)>>
    /\ Len(calls) = 2 /\ calls[1].reg = 2 /\ calls[2].reg = 1
    /\ Len(last.val) = 2
    /\ tasks[1].val # <<>> /\ last.val[1] = tasks[1].val[1]
    /\ tasks[2].val # <<>> /\ last.val[2] = tasks[2].val[1]

-----------------------------------------------------------------------------
(* C34 *)

\* The results of the wrapped search that the predicate of the view accepts,
\* in the order the wrapped registry returned them.
Accepted == SelectSeq(calls[1].val, LAMBDA s : s \in last.view.predicate)

\* C34: FilteredRegistry.search(q, limit) calls the wrapped search once, with
\* the same query and limit 5 * limit, and returns the first `limit` of the
\* results the predicate accepts, in the wrapped order; an error of the
\* wrapped search is the outcome of the call.
C34_FilteredSearchFetchesOnce ==
    On("filtered", "search") =>
        /\ Len(calls) = 1
        /\ IsCall(1, "search", last.view.wrapped.reg, last.query)
        /\ calls[1].limit = 5 * last.limit
        /\ last.ok = calls[1].ok
        /\ ~calls[1].ok => last.val = calls[1].val
        /\ calls[1].ok =>
              /\ Len(last.val) = IF Len(Accepted) < last.limit THEN Len(Accepted)
                                 ELSE last.limit
              /\ \A k \in 1..Len(last.val) : last.val[k] = Accepted[k]

\* search(q, 1) got five results from the wrapped registry, none of which
\* the predicate accepts, and returned nothing, although the sixth skill of
\* the registry matches the query and is accepted.
C34_Witness ==
    /\ On("filtered", "search") /\ last.ok
    /\ last.limit = 1 /\ last.val = <<>>
    /\ Len(calls) = 1 /\ calls[1].ok /\ Len(calls[1].val) = 5
    /\ Len(last.pre[1]) = 6
    /\ Matches(last.query, last.pre[1][6])
    /\ last.pre[1][6] \in last.view.predicate

-----------------------------------------------------------------------------
(* C35 *)

\* The call in hand is install(n, d) and the cache it looked in has no skill
\* named n.
InstallOfUnknown == OnGit("install") /\ ~HasName(Cache(git), last.name)

-----------------------------------------------------------------------------
(* C36 *)

\* update(n, d) found d/n and a clone or pull it ran failed: a git command
\* is the last step of the call.
UpdateSyncFailed ==
    /\ UpdateInstalled /\ ~last.ok
    /\ calls # <<>> /\ calls[Len(calls)] \in {"clone", "pull"}

-----------------------------------------------------------------------------
(* C37 *)

\* update(n, d) found d/n, its synchronisation worked, and the tree it left
\* has no skill named n.
UpdateSkillGone ==
    /\ UpdateInstalled
    /\ Len(calls) >= 2 /\ calls[1] \in {"clone", "pull"}
    /\ \A k \in 1..Len(git.tree) : git.tree[k].name # last.name

\* get(n) after the call fails, whatever the network does, as long as the
\* remote holds the tree the update fetched.
LaterGetFails ==
    \A env \in SyncEnvs :
        env.remote = git.tree => ~GitSkillsRegistryGet(GitNow, last.name, env).ok

-----------------------------------------------------------------------------
(* C38 *)

\* The call in hand is get_skills() on a filtered, prefixed or renamed view,
\* and the get_skills() of the wrapped registry it made returned skills with
\* pairwise distinct names.
ViewOfDistinctNames ==
    /\ last.op = "get_skills" /\ last.ok
    /\ last.view.kind \in {"filtered", "prefixed", "renamed"}
    /\ Len(calls) = 1 /\ calls[1].op = "get_skills" /\ calls[1].ok
    /\ DistinctNames(calls[1].val)

\* C38: get_skills() of a filtered, prefixed or renamed view over a registry
\* whose skills have pairwise distinct names returns skills with pairwise
\* distinct names, for every predicate, prefix and name_map.
C38_ViewsKeepNamesDistinct ==
    ViewOfDistinctNames => DistinctNames(last.val)

-----------------------------------------------------------------------------
(* C39 *)

\* The call in hand is get, install or update on a CombinedRegistry.
CombinedInOrder ==
    last.op \in {"get", "install", "update"} /\ last.view.kind = "combined"

\* Call k of the log raised an exception that is not SkillNotFoundError.
OtherError(k) == ~calls[k].ok /\ calls[k].val.type # "SkillNotFoundError"

\* C39: in CombinedRegistry.get, install and update the call of a child that
\* raises an exception other than SkillNotFoundError is the last call made,
\* and that exception is the outcome; every call before the last one either
\* raised SkillNotFoundError or is the successful get that install and
\* update make before they call the same child.
C39_OtherErrorsStopTheLoop ==
    CombinedInOrder =>
        \A k \in 1..Len(calls) :
            /\ OtherError(k) =>
                  /\ k = Len(calls)
                  /\ ~last.ok /\ last.val = calls[k].val
            /\ k < Len(calls) =>
                  \/ ~calls[k].ok /\ calls[k].val.type = "SkillNotFoundError"
                  \/ /\ calls[k].ok /\ calls[k].op = "get" /\ last.op # "get"
                     /\ calls[k + 1].op = last.op
                     /\ calls[k + 1].reg = calls[k].reg

\* The first child, a GitSkillsRegistry, raised SkillRegistryError, which is
\* the outcome of the call; the second child holds the skill and was not
\* called.
C39_Witness ==
    /\ CombinedInOrder
    /\ last.view.registries = <<Leaf(1), Leaf(2)>>
    /\ calls # <<>> /\ OtherError(Len(calls))
    /\ ~last.ok /\ last.val.type = "SkillRegistryError"
    /\ HasName(last.pre[2], last.name)
    /\ \A k \in 1..Len(calls) : calls[k].reg = 1

====
